---- MODULE Spec2Model ----
(***************************************************************************)
(* Model of one call handled by handleTwilioStream (twilio-handler.js) and *)
(* of the CartesiaService it owns (cartesia.js, direct WebSocket version). *)
(*                                                                         *)
(* Every `await` of the source is a step boundary.  Node runs a callback   *)
(* and all promise continuations it makes runnable to completion before    *)
(* the next I/O or timer callback: continuations that the model keeps as   *)
(* separate steps are "microtasks", and every I/O or timer action is       *)
(* disabled while one is pending (MicrotaskPending).                       *)
(***************************************************************************)
EXTENDS Naturals, Integers, Sequences, FiniteSets, TLC

\* ------------------------------------------------------------------ bounds
MaxInv == 2        \* onTranscript invocations that may be suspended at once
MaxTurns == 2      \* utterances accepted in the modelled part of the call
MaxDiscards == 1   \* utterances discarded in the modelled part of the call
MaxChunks == 1     \* audio chunks counted per synthesis request
MaxActions == 3    \* tool calls executed in SpecTools
MaxFrames == 1     \* media frames of a call
MaxEvents == 4     \* events of each of two concurrent calls
MaxWords == 2      \* words of a text given to correctPlumbingTerms
MaxSegments == 4   \* finalized segments of a recognition stream

\* ------------------------------------------------------- program constants
MaxRetries == 1    \* speakTextWithRetry(text, onAudioChunk, maxRetries = 1)
MAX_RETRIES == 3   \* post-call webhook: attempts of the retry version

Callers == 0..MaxInv          \* 0: initialize; 1..MaxInv: onTranscript calls
Turns == 1..MaxInv

Fields == {"issue", "started"}
Values == {"v1", "v2"}
NullV == "null"

UPDATE == "update_service_request"
ENDCALL == "end_call_with_summary"
OTHERTOOL == "lookup_weather"

\* Text is a sequence of tokens: "fn" is one <function=..>..</function>
\* span, anything else a word.  <<>> is no content (null or '').
Fallback == <<"sorry">>
LlmContents == {<<>>, <<"fn">>, <<"ok">>, <<"fn", "ok">>}

VARIABLES
  wsState,        \* Twilio socket: "open", "closing" (close() called), "closed"
  crashed,        \* an exception escaped a timer callback: process.exit(1)
  userConfig,     \* "unset", "demo" (is_demo) or "client"
  ringback,       \* sendRingbackAudio: "none", "playing", "done"
  dgOpen,         \* deepgramConnection exists and was not finished
  isSpeaking,
  messages,
  transcript,
  collectedData,
  llmCalls,
  closeTimers,    \* armed setTimeout(() => ws.close(), 5000)
  pc,             \* per caller: where the invocation is suspended
  sendCtx,        \* per caller: what its sendAIResponse speaks
  llmReq,         \* per caller: the reasoning request it awaits
  tts,            \* the CartesiaService object
  nAccepted,      \* utterances that passed the isSpeaking check
  nDiscarded,     \* utterances discarded by the isSpeaking check
  updLog,         \* arguments of the executed update_service_request calls
  audioOut,       \* per caller: chunks its sendAIResponse sent to the transport
  llmProvider,    \* LLMRouter.provider: "auto", "groq" or "gemini"
  metrics,        \* metrics.js: callsByProvider and fallbackCount
  route,          \* per caller: what LLMRouter.chat did for its latest call
  stopPc,         \* the 'stop' branch: "none", "webhook" (in finalize), "done"
  finalizeCalls,  \* times finalize handed the session to sendToWebhook
  teardown,       \* what closing the two connections did on 'stop'
  webhook,        \* sendToWebhook as called by finalize, and onCallEnd
  media,          \* inbound media frames and what was done with them
  late,           \* callers whose onMessage is on a socket being closed
  recog,          \* the segment accumulator of DeepgramService.startStream
  utter,          \* a text and the correction passes applied to it
  streams         \* two concurrent handleTwilioStream closures

vars == <<wsState, crashed, userConfig, ringback, dgOpen, isSpeaking, messages,
          transcript, collectedData, llmCalls, closeTimers, pc, sendCtx,
          llmReq, tts, nAccepted, nDiscarded, updLog, audioOut, llmProvider,
          metrics, route, stopPc, finalizeCalls, teardown, webhook, media,
          late, recog, utter, streams>>

routerVars == <<llmProvider, metrics, route>>

stopVars == <<stopPc, finalizeCalls, teardown>>

\* What only the recognizer, the correction pass and the second call touch.
sideVars == <<recog, utter, streams>>

sessionVars == <<wsState, userConfig, ringback, dgOpen, isSpeaking, messages,
                 transcript, collectedData, llmCalls, closeTimers, pc,
                 sendCtx, llmReq, nAccepted, nDiscarded, updLog, audioOut,
                 routerVars, stopVars, webhook, media, late,
                 sideVars>>

\* ------------------------------------------------------- CartesiaService
\* tts.websocket: "null", "connecting", "open" or "closed" (an object that
\*   is not OPEN); tts.connPend[c]: c awaits connect(): "cur" when the
\*   socket that connect() made is still this.websocket, "stale" when
\*   disconnect() or a later connect() replaced it; tts.req[c]: the request
\*   of caller c: "none", "queued", "speaking" (speakText pending), "pause"
\*   and "reconnect" (speakTextWithRetry between attempts), "resolved" and
\*   "rejected" (settled, the awaiting sendAIResponse not yet resumed);
\*   tts.lastError[c]: what the attempt that speakTextWithRetry is retrying
\*   failed with.
CartesiaInit ==
  [exists |-> FALSE,
   websocket |-> "null",
   connPend |-> [c \in Callers |-> "none"],
   idle |-> FALSE,
   ttsQueue |-> <<>>,
   isProcessingQueue |-> FALSE,
   req |-> [c \in Callers |-> "none"],
   chunkCount |-> [c \in Callers |-> 0],
   hardTimeout |-> [c \in Callers |-> FALSE],
   attempt |-> [c \in Callers |-> 0],
   lastError |-> [c \in Callers |-> "none"],
   onCur |-> [c \in Callers |-> FALSE]]

NeedsRefresh(t) == t.idle

Disconnect(t) ==
  [t EXCEPT !.websocket = "null",
            !.connPend = [c \in Callers |-> IF @[c] = "cur" THEN "stale" ELSE @[c]],
            !.onCur = [c \in Callers |-> FALSE]]

Connect(t, o) ==
  [t EXCEPT !.websocket = "connecting",
            !.connPend = [c \in Callers |->
                            IF c = o THEN "cur"
                            ELSE IF @[c] = "cur" THEN "stale" ELSE @[c]],
            !.onCur = [c \in Callers |-> FALSE]]

\* speakText up to its first suspension: rejects at once when the socket is
\* not OPEN, else attaches the handlers, arms the 10 s timer and sends.
SpeakTextOpen(t) == t.websocket = "open"

SpeakTextSend(t, c) ==
  [t EXCEPT !.req[c] = "speaking",
            !.chunkCount[c] = 0,
            !.hardTimeout[c] = TRUE,
            !.lastError[c] = "none",
            !.onCur[c] = TRUE,
            !.idle = FALSE]

\* The while loop of processQueue from its test to its next suspension.  A
\* request whose speakText rejects at once is not retried (no 'TTS timeout'
\* in the message) and the loop goes on to the next request.
RECURSIVE ProcessLoop(_)
ProcessLoop(t) ==
  IF t.ttsQueue = <<>>
  THEN [t EXCEPT !.isProcessingQueue = FALSE]
  ELSE LET c == Head(t.ttsQueue)
           t1 == [t EXCEPT !.ttsQueue = Tail(@), !.attempt[c] = 0]
       IN IF SpeakTextOpen(t1)
          THEN SpeakTextSend(t1, c)
          ELSE ProcessLoop([t1 EXCEPT !.req[c] = "rejected"])

ProcessQueueUnguarded(t) == ProcessLoop([t EXCEPT !.isProcessingQueue = TRUE])

ProcessQueue(t) ==
  IF t.isProcessingQueue
  THEN t
  ELSE ProcessLoop([t EXCEPT !.isProcessingQueue = TRUE])

QueueSpeakText(t, c) ==
  ProcessQueue([t EXCEPT !.ttsQueue = Append(@, c), !.req[c] = "queued"])

\* processQueue without its try/catch (a mutation): a rejection leaves the
\* loop, isProcessingQueue stays set and the waiting requests stay queued.
SettleUncaught(t, c, outcome) ==
  IF outcome = "rejected"
  THEN [t EXCEPT !.req[c] = outcome, !.hardTimeout[c] = FALSE,
                 !.chunkCount[c] = 0, !.attempt[c] = 0,
                 !.lastError[c] = "none", !.onCur[c] = FALSE]
  ELSE ProcessLoop([t EXCEPT !.req[c] = outcome, !.hardTimeout[c] = FALSE,
                             !.chunkCount[c] = 0, !.attempt[c] = 0,
                             !.lastError[c] = "none", !.onCur[c] = FALSE])

\* request.resolve / request.reject in processQueue, and the loop going on.
\* The closure of the settled speakText (chunkCount, the timers) is dropped.
Settle(t, c, outcome) ==
  ProcessLoop([t EXCEPT !.req[c] = outcome,
                        !.hardTimeout[c] = FALSE,
                        !.chunkCount[c] = 0,
                        !.attempt[c] = 0,
                        !.lastError[c] = "none",
                        !.onCur[c] = FALSE])

\* if (chunkCount === 0) of the hardTimeout callback.
TimeoutAnyway(t, c) == TRUE

NoChunkYet(t, c) == t.chunkCount[c] = 0

\* const shouldRetry = attempt < maxRetries && isTimeout
RetryWhileTimeout(t, c, isTimeout) == isTimeout

ShouldRetry(t, c, isTimeout) == t.attempt[c] < MaxRetries /\ isTimeout

\* The catch of speakTextWithRetry: speakText rejected with error.  On a
\* retry: disconnect(), then the 100 ms pause; else the error is rethrown
\* and processQueue rejects the request.
SpeakTextRejected(t, c, error) ==
  IF ShouldRetry(t, c, error = "timeout")
  THEN [Disconnect(t) EXCEPT !.hardTimeout[c] = FALSE,
                             !.req[c] = "pause",
                             !.lastError[c] = error]
  ELSE Settle(t, c, "rejected")

Attached(t, c) == t.req[c] = "speaking" /\ t.onCur[c] /\ t.websocket = "open"

\* The callers whose speakText has its handlers on the open socket.
Listeners == {c \in Callers : Attached(tts, c)}

RECURSIVE SettleAll(_, _, _)
SettleAll(t, cs, outcome) ==
  IF cs = {} THEN t
  ELSE LET c == CHOOSE x \in cs : TRUE
       IN SettleAll(IF outcome = "resolved"
                    THEN Settle(t, c, "resolved")
                    ELSE SpeakTextRejected(t, c, outcome),
                    cs \ {c}, outcome)

\* --------------------------------------------------------- pure helpers
\* stripFunctionCalls: drops every <function=..>..</function> span, trims.
StripFunctionCalls(text) == SelectSeq(text, LAMBDA w : w # "fn")

Msg(role, content, ref) == [role |-> role, content |-> content, ref |-> ref]
Line(speaker, text) == [speaker |-> speaker, text |-> text]

NoSend == [ctx |-> "none", text |-> <<>>]
NoReq ==
  [kind |-> "none", tools |-> FALSE, calls |-> <<>>, at |-> 0,
   provider |-> "none", isFallback |-> FALSE]

\* A tool call as the reasoning router returns it: args is the object that
\* JSON.parse(toolCall.function.arguments) yields, ok is FALSE when the
\* arguments are not JSON and JSON.parse throws.
ToolCall(id, name, ok, args) == [id |-> id, name |-> name, ok |-> ok, args |-> args]

ArgSets == UNION {[S -> Values \cup {NullV}] : S \in SUBSET Fields}

\* Object.assign(collectedData, args)
ObjectAssignKeepOld(cd, args) ==
  [f \in Fields |-> IF f \in DOMAIN args /\ cd[f] = NullV THEN args[f] ELSE cd[f]]

ObjectAssign(cd, args) ==
  [f \in Fields |-> IF f \in DOMAIN args THEN args[f] ELSE cd[f]]

\* An unknown name handled by the last branch that exists (a mutation of
\* executeToolCall without its final return).
ExecuteUnknownAsEndCall(st, tc) ==
  IF ~tc.ok
  THEN [st EXCEPT !.threw = TRUE]
  ELSE IF tc.name = UPDATE
  THEN [st EXCEPT !.data = ObjectAssign(st.data, tc.args),
                  !.log = Append(st.log, tc.args),
                  !.result = "success"]
  ELSE [st EXCEPT !.timers = st.timers + 1, !.result = "success"]

\* executeToolCall on the state st = [data, timers, log, threw, result].
ExecuteToolCall(st, tc) ==
  IF ~tc.ok
  THEN [st EXCEPT !.threw = TRUE]
  ELSE IF tc.name = UPDATE
  THEN [st EXCEPT !.data = ObjectAssign(st.data, tc.args),
                  !.log = Append(st.log, tc.args),
                  !.result = "success"]
  ELSE IF tc.name = ENDCALL
  THEN [st EXCEPT !.timers = st.timers + 1, !.result = "success"]
  ELSE [st EXCEPT !.result = "failure"]

\* for (const toolCall of response.toolCalls) { execute; messages.push }
RECURSIVE RunTools(_, _, _)
RunTools(st, msgs, calls) ==
  IF calls = <<>> THEN [st |-> st, msgs |-> msgs]
  ELSE LET st1 == ExecuteToolCall(st, Head(calls))
       IN IF st1.threw
          THEN [st |-> st1, msgs |-> msgs]
          ELSE RunTools(st1,
                        Append(msgs, Msg("tool", <<st1.result>>, <<Head(calls).id>>)),
                        Tail(calls))

ToolState == [data |-> collectedData, timers |-> closeTimers, log |-> updLog,
              threw |-> FALSE, result |-> "none"]

\* LLMRouter.chat(messages, callSid, tools): the provider the router calls
\* first is groq unless LLM_PROVIDER forces gemini; tools are offered when
\* given.
ChatRequest(tools, at) ==
  [kind |-> "chat", tools |-> tools, calls |-> <<>>, at |-> at,
   provider |-> IF llmProvider = "gemini" THEN "gemini" ELSE "groq",
   isFallback |-> FALSE]

\* groq.chatWithToolResults(messages): the request carries no tools.
ChatWithToolResults(calls, at) ==
  [kind |-> "followup", tools |-> FALSE, calls |-> calls, at |-> at,
   provider |-> "groq", isFallback |-> FALSE]

\* _callGemini(messages, callId, tools, startTime, true): the same messages
\* array and the same tools argument go to the fallback provider.
FallbackRequest(req) == [req EXCEPT !.provider = "gemini", !.isFallback = TRUE]

\* The errors a provider call may throw: the words of error.message, then
\* error.code and error.status ("" when the field is absent).
ProviderError(kind, message, code, status) ==
  [kind |-> kind, message |-> message, code |-> code, status |-> status]

ProviderErrors ==
  {ProviderError("rate limited", <<"429", "rate_limit_exceeded">>, "rate_limit_exceeded", "429"),
   ProviderError("overloaded", <<"503", "service_unavailable">>, "", "503"),
   ProviderError("bad gateway", <<"502", "bad", "gateway">>, "", "502"),
   ProviderError("tool schema", <<"400", "tool_use_failed">>, "tool_use_failed", "400"),
   ProviderError("unauthorized", <<"401", "invalid_api_key">>, "invalid_api_key", "401")}

ErrorKinds == {e.kind : e \in ProviderErrors}

\* String.prototype.includes on one word of the error string: the word
\* contains the pattern as a substring.
Includes(word, pattern) ==
  \/ word = pattern
  \/ <<word, pattern>> \in {<<"rate_limit_exceeded", "rate_limit">>}

FallbackErrors ==
  {"rate_limit", "service_unavailable", "overloaded", "tool_use_failed",
   "429", "503", "500", "400"}

\* error.message + ' ' + (error.code || '') + ' ' + (error.status || '')
ErrorString(error) == error.message \o <<error.code, error.status>>

\* _shouldFallback: some pattern of the list occurs in the error string.
ShouldFallback(error) ==
  \E i \in DOMAIN ErrorString(error) :
    \E pattern \in FallbackErrors : Includes(ErrorString(error)[i], pattern)

\* metrics.js: the process-wide counters that trackLLMUsage updates.
NoMetrics == [groq |-> 0, gemini |-> 0, fallbackCount |-> 0, activeCalls |-> 0]

\* onCallStart(userId): metrics.activeCalls++
OnCallStart(m) == [m EXCEPT !.activeCalls = @ + 1]

\* onCallEnd(): metrics.activeCalls--
OnCallEnd(m) == [m EXCEPT !.activeCalls = @ - 1]

TrackWithoutFallback(m, provider, isFallback) == [m EXCEPT ![provider] = @ + 1]

\* trackLLMUsage(provider, cost, latency, isFallback)
TrackLLMUsage(m, provider, isFallback) ==
  [m EXCEPT ![provider] = @ + 1,
            !.fallbackCount = IF isFallback THEN @ + 1 ELSE @]

\* What LLMRouter.chat did for a caller: how the first provider call ended
\* ("ok" or the kind of its error), how the fallback call ended, how chat
\* itself ended, the provider and isFallback fields of its response, and
\* whether the provider's response requested a structured action.
NoRoute ==
  [primary |-> "none", fallback |-> "none", result |-> "none",
   provider |-> "none", isFallback |-> FALSE, requested |-> FALSE]

\* Neither connection was closed by a 'stop' message yet.
NoTeardown == [deepgram |-> "none", cartesia |-> "none"]

\* finalize has not called sendToWebhook.
NoWebhook ==
  [version |-> "none", pc |-> "none", attempt |-> 0, result |-> "none",
   ended |-> FALSE]

\* deepgramConnection is null; no media frame was received.
NoMedia == [conn |-> FALSE, forwarded |-> 0, dropped |-> 0,
            payload |-> FALSE, during |-> "none"]

\* let transcriptSegments = []; nothing was delivered to onTranscript.
NoRecog == [transcriptSegments |-> <<>>, delivered |-> <<>>, finals |-> <<>>]

NoUtter == [original |-> <<>>, text |-> <<>>, passes |-> 0]

\* The closure state of a call as handleTwilioStream creates it.
NoCall == [isSpeaking |-> FALSE, transcript |-> 0, collectedData |-> NullV,
           ttsQueue |-> 0, events |-> 0]

NoCalls == [k \in {"A", "B"} |-> NoCall]

\* --------------------------------------------------------------- Init
\* The state after construction, the text under correction apart.
Constructed ==
  /\ wsState = "open"
  /\ crashed = FALSE
  /\ userConfig = "unset"
  /\ ringback = "none"
  /\ dgOpen = FALSE
  /\ isSpeaking = FALSE
  /\ messages = <<>>
  /\ transcript = <<>>
  /\ collectedData = [f \in Fields |-> NullV]
  /\ llmCalls = 0
  /\ closeTimers = 0
  /\ pc = [c \in Callers |-> "idle"]
  /\ sendCtx = [c \in Callers |-> NoSend]
  /\ llmReq = [c \in Callers |-> NoReq]
  /\ tts = CartesiaInit
  /\ nAccepted = 0
  /\ nDiscarded = 0
  /\ updLog = <<>>
  /\ audioOut = [c \in Callers |-> <<>>]
  /\ llmProvider = "groq"
  /\ metrics = NoMetrics
  /\ route = [c \in Callers |-> NoRoute]
  /\ stopPc = "none"
  /\ finalizeCalls = 0
  /\ teardown = NoTeardown
  /\ webhook = NoWebhook
  /\ media = NoMedia
  /\ late = {}
  /\ recog = NoRecog
  /\ streams = NoCalls

Init ==
  /\ Constructed
  /\ utter = NoUtter

\* A promise continuation is runnable: no I/O or timer callback runs first.
MicrotaskPending ==
  \E c \in Callers : pc[c] = "threw" \/ tts.req[c] \in {"resolved", "rejected"}

Running == ~crashed /\ ~MicrotaskPending

\* ws.close(): the 'close' event follows in a later callback.
WsClose(s) == IF s = "open" THEN "closing" ELSE s

\* ------------------------------------------------------- sendAIResponse
\* finally { isSpeaking = false; } of sendAIResponse: the value the flag
\* has when the function exits.  (FinallyKeepsFlag: the block left out.)
FinallyKeepsFlag == isSpeaking

Finally == FALSE

\* sendAIResponse(text) from its entry to its first suspension, called by
\* caller c with trBase the display transcript as the caller left it.
SendAIResponse(c, text, ctx, trBase) ==
  /\ sendCtx' = [sendCtx EXCEPT ![c] = [ctx |-> ctx, text |-> text]]
  /\ IF ~tts.exists
     THEN \* cartesia is null: TypeError, caught, rethrown, finally
          /\ isSpeaking' = Finally
          /\ pc' = [pc EXCEPT ![c] = "threw"]
          /\ transcript' = trBase
          /\ tts' = tts
     ELSE IF NeedsRefresh(tts)
     THEN /\ isSpeaking' = TRUE
          /\ pc' = [pc EXCEPT ![c] = "refresh"]
          /\ transcript' = trBase
          /\ tts' = Connect(Disconnect(tts), c)
     ELSE /\ isSpeaking' = TRUE
          /\ pc' = [pc EXCEPT ![c] = "tts"]
          /\ transcript' = Append(trBase, Line("ai", text))
          /\ tts' = QueueSpeakText(tts, c)

\* queueSpeakText settled: sendAIResponse resumes.  Resolved: it starts the
\* playback wait.  Rejected: catch rethrows, finally runs, it exits.
SendResumes(c) ==
  /\ ~crashed
  /\ pc[c] = "tts"
  /\ tts.req[c] \in {"resolved", "rejected"}
  /\ tts' = [tts EXCEPT !.req[c] = "none"]
  /\ IF tts.req[c] = "resolved"
     THEN /\ pc' = [pc EXCEPT ![c] = "playback"]
          /\ UNCHANGED <<isSpeaking, audioOut>>
     ELSE /\ pc' = [pc EXCEPT ![c] = "threw"]
          /\ isSpeaking' = Finally
          /\ audioOut' = [audioOut EXCEPT ![c] = <<>>]
  /\ UNCHANGED <<wsState, crashed, userConfig, ringback, dgOpen, messages,
                 transcript, collectedData, llmCalls, closeTimers, sendCtx,
                 llmReq, nAccepted, nDiscarded, updLog,
                 routerVars, stopVars, webhook, media,
                 late, sideVars>>

\* The playback wait elapsed: finally runs, sendAIResponse returns and its
\* caller (initialize or onTranscript) only logs and ends.
PlaybackDone(c) ==
  /\ Running
  /\ pc[c] = "playback"
  /\ isSpeaking' = Finally
  /\ pc' = [pc EXCEPT ![c] = IF c = 0 THEN "done" ELSE "idle"]
  /\ sendCtx' = [sendCtx EXCEPT ![c] = NoSend]
  /\ audioOut' = [audioOut EXCEPT ![c] = <<>>]
  /\ UNCHANGED <<wsState, crashed, userConfig, ringback, dgOpen, messages,
                 transcript, collectedData, llmCalls, closeTimers, llmReq, tts,
                 nAccepted, nDiscarded, updLog,
                 routerVars, stopVars, webhook, media,
                 late, sideVars>>

\* The invocation ends without speaking.
TurnEndsSilent(c) ==
  /\ pc' = [pc EXCEPT ![c] = "idle"]
  /\ UNCHANGED <<isSpeaking, transcript, sendCtx, tts>>

\* A catch that only logs (a mutation of SpeakFallback).
LogOnly(c, msgs) ==
  /\ messages' = msgs
  /\ TurnEndsSilent(c)

\* catch (error) of onTranscript: the fallback phrase is pushed to messages
\* and handed to sendAIResponse.
SpeakFallback(c, msgs) ==
  /\ messages' = Append(msgs, Msg("assistant", Fallback, <<>>))
  /\ SendAIResponse(c, Fallback, "fallback", transcript)

\* sendAIResponse threw into its caller: initialize's catch closes the
\* socket; onTranscript's catch speaks the fallback phrase; the catch around
\* the fallback phrase only logs.
SendThrew(c) ==
  /\ ~crashed
  /\ pc[c] = "threw"
  /\ IF sendCtx[c].ctx = "greeting"
     THEN /\ wsState' = WsClose(wsState)
          /\ pc' = [pc EXCEPT ![c] = "failed"]
          /\ sendCtx' = [sendCtx EXCEPT ![c] = NoSend]
          /\ UNCHANGED <<isSpeaking, messages, transcript, tts>>
     ELSE IF sendCtx[c].ctx = "reply"
     THEN /\ SpeakFallback(c, messages)
          /\ UNCHANGED wsState
     ELSE /\ pc' = [pc EXCEPT ![c] = "idle"]
          /\ sendCtx' = [sendCtx EXCEPT ![c] = NoSend]
          /\ UNCHANGED <<wsState, isSpeaking, messages, transcript, tts>>
  /\ UNCHANGED <<crashed, userConfig, ringback, dgOpen, collectedData,
                 llmCalls, closeTimers, llmReq, nAccepted, nDiscarded, updLog,
                 audioOut, routerVars, stopVars, webhook, media,
                 late, sideVars>>

\* ----------------------------------------------------------- initialize
\* ws 'message' with event 'start': initialize runs to its first await.
\* sendRingbackAudio returns at once when the audio file is missing.
TwilioStart ==
  /\ Running
  /\ wsState = "open"
  /\ pc[0] = "idle"
  /\ isSpeaking' = TRUE
  /\ \E r \in {"playing", "done"} : ringback' = r
  /\ pc' = [pc EXCEPT ![0] = "config"]
  /\ UNCHANGED <<wsState, crashed, userConfig, dgOpen, messages, transcript,
                 collectedData, llmCalls, closeTimers, sendCtx, llmReq, tts,
                 nAccepted, nDiscarded, updLog,
                 audioOut, routerVars, stopVars, webhook, media,
                 late, sideVars>>

\* catch (error) { ws.close() } of initialize.
InitializeFails ==
  /\ wsState' = WsClose(wsState)
  /\ pc' = [pc EXCEPT ![0] = "failed"]

\* getConfigFromDashboard settles.
ConfigReturns ==
  /\ Running
  /\ pc[0] = "config"
  /\ \/ \* the configuration, or on HTTP 404/403 the error object that
        \* getConfigFromDashboard returns ({_configError: true, ...})
        \* then onCallStart(userId)
        /\ \E u \in {"demo", "client", "unconfigured"} : userConfig' = u
        /\ metrics' = OnCallStart(metrics)
        /\ pc' = [pc EXCEPT ![0] = "prompt"]
        /\ UNCHANGED wsState
     \/ /\ InitializeFails
        /\ UNCHANGED <<userConfig, metrics>>
  /\ UNCHANGED <<crashed, ringback, dgOpen, isSpeaking, messages, transcript,
                 collectedData, llmCalls, closeTimers, sendCtx, llmReq, tts,
                 nAccepted, nDiscarded, updLog,
                 audioOut, llmProvider, route, stopVars, webhook, media,
                 late, sideVars>>

\* buildPrompt settles; then the system message, the service objects and
\* deepgram.startStream (which has no await of its own).
PromptReturns ==
  /\ Running
  /\ pc[0] = "prompt"
  /\ \/ /\ messages' = Append(messages, Msg("system", <<"prompt">>, <<>>))
        /\ dgOpen' = TRUE
        /\ media' = [media EXCEPT !.conn = TRUE]
        /\ pc' = [pc EXCEPT ![0] = "ringback"]
        /\ UNCHANGED wsState
     \/ \* new DeepgramService / new LLMRouter / startStream throws
        /\ messages' = Append(messages, Msg("system", <<"prompt">>, <<>>))
        /\ InitializeFails
        /\ UNCHANGED <<dgOpen, media>>
     \/ \* buildPrompt rejects
        /\ InitializeFails
        /\ UNCHANGED <<messages, dgOpen, media>>
  /\ UNCHANGED <<crashed, userConfig, ringback, isSpeaking, transcript,
                 collectedData, llmCalls, closeTimers, sendCtx, llmReq, tts,
                 nAccepted, nDiscarded, updLog,
                 audioOut, routerVars, stopVars, webhook,
                 late, sideVars>>

\* The last 20 ms chunk of the ringback pattern was sent.
RingbackEnds ==
  /\ Running
  /\ ringback = "playing"
  /\ ringback' = "done"
  /\ UNCHANGED <<wsState, crashed, userConfig, dgOpen, isSpeaking, messages,
                 transcript, collectedData, llmCalls, closeTimers, pc, sendCtx,
                 llmReq, tts, nAccepted, nDiscarded, updLog,
                 audioOut, routerVars, stopVars, webhook, media,
                 late, sideVars>>

\* The playback has begun (a mutation of the await: sendRingbackAudio()
\* is not awaited to its end).
RingbackStarted == ringback # "none"

\* ringbackPromise has resolved.
RingbackOver == ringback = "done"

\* await ringbackPromise is over: new CartesiaService(), cartesia.connect.
RingbackAwaited ==
  /\ Running
  /\ pc[0] = "ringback"
  /\ RingbackOver
  /\ \/ /\ tts' = Connect([tts EXCEPT !.exists = TRUE], 0)
        /\ pc' = [pc EXCEPT ![0] = "connect"]
        /\ UNCHANGED wsState
     \/ \* the constructor throws (no API key)
        /\ InitializeFails
        /\ UNCHANGED tts
  /\ UNCHANGED <<crashed, userConfig, ringback, dgOpen, isSpeaking, messages,
                 transcript, collectedData, llmCalls, closeTimers, sendCtx,
                 llmReq, nAccepted, nDiscarded, updLog,
                 audioOut, routerVars, stopVars, webhook, media,
                 late, sideVars>>

\* What the auto branch of LLMRouter.chat (lines 42-59) records when a
\* provider call succeeds; with a forced provider there is nothing to route.
Served(c) ==
  IF llmProvider # "auto" THEN NoRoute
  ELSE IF llmReq[c].isFallback
  THEN [route[c] EXCEPT !.fallback = "ok", !.result = "ok",
                        !.provider = "gemini", !.isFallback = TRUE]
  ELSE [NoRoute EXCEPT !.primary = "ok", !.result = "ok",
                       !.provider = llmReq[c].provider]

\* The response of the provider carried a structured action: toolCalls of
\* GroqClient.chat, functionCall of GeminiClient.chat.
Requested(r) == IF llmProvider # "auto" THEN r ELSE [r EXCEPT !.requested = TRUE]

\* What it records when an error leaves LLMRouter.chat.
Threw(c, error) ==
  IF llmProvider # "auto" THEN NoRoute
  ELSE IF llmReq[c].isFallback
  THEN [route[c] EXCEPT !.fallback = error.kind, !.result = "threw"]
  ELSE [NoRoute EXCEPT !.primary = error.kind, !.result = "threw"]

\* llmRouter.chat(messages, callSid, null) for the greeting returns a
\* response: _callGroq or _callGemini tracked the usage.
GreetingReturns ==
  /\ Running
  /\ pc[0] = "greet"
  /\ llmReq' = [llmReq EXCEPT ![0] = NoReq]
  /\ metrics' = TrackLLMUsage(metrics, llmReq[0].provider, llmReq[0].isFallback)
  /\ route' = [route EXCEPT ![0] = Served(0)]
  /\ \E content \in LlmContents :
       LET greeting == StripFunctionCalls(content)
       IN /\ messages' = Append(messages, Msg("assistant", greeting, <<>>))
          /\ SendAIResponse(0, greeting, "greeting",
                            Append(transcript, Line("ai", greeting)))
  /\ UNCHANGED <<wsState, crashed, userConfig, ringback, dgOpen, collectedData,
                 llmCalls, closeTimers, nAccepted, nDiscarded, updLog,
                 audioOut, llmProvider, stopVars, webhook, media,
                 late, sideVars>>

\* ------------------------------------------------------ connect() settles
\* Who awaits the connect() of caller c: initialize (pc "connect"), the
\* idle refresh of sendAIResponse (pc "refresh") or speakTextWithRetry
\* (request "reconnect").
ConnectResolved(c, t1) ==
  IF pc[c] = "connect"
  THEN /\ pc' = [pc EXCEPT ![c] = "greet"]
       /\ llmReq' = [llmReq EXCEPT ![c] = ChatRequest(FALSE, Len(messages))]
       /\ tts' = t1
       /\ UNCHANGED <<wsState, isSpeaking, transcript>>
  ELSE IF pc[c] = "refresh"
  THEN /\ pc' = [pc EXCEPT ![c] = "tts"]
       /\ transcript' = Append(transcript, Line("ai", sendCtx[c].text))
       /\ tts' = QueueSpeakText(t1, c)
       /\ UNCHANGED <<wsState, isSpeaking, llmReq>>
  ELSE \* continue: the second attempt of speakTextWithRetry
       /\ tts' = IF SpeakTextOpen(t1)
                 THEN SpeakTextSend([t1 EXCEPT !.attempt[c] = @ + 1], c)
                 ELSE SpeakTextRejected([t1 EXCEPT !.attempt[c] = @ + 1], c,
                                        "not connected")
       /\ UNCHANGED <<wsState, isSpeaking, transcript, pc, llmReq>>

ConnectRejected(c, t1) ==
  IF pc[c] = "connect"
  THEN /\ InitializeFails
       /\ tts' = t1
       /\ UNCHANGED isSpeaking
  ELSE IF pc[c] = "refresh"
  THEN /\ pc' = [pc EXCEPT ![c] = "threw"]
       /\ isSpeaking' = Finally
       /\ tts' = t1
       /\ UNCHANGED wsState
  ELSE \* throw reconnectError: the request is rejected
       /\ tts' = Settle(t1, c, "rejected")
       /\ UNCHANGED <<wsState, isSpeaking, pc>>

\* 'open' on the socket that the connect() of caller c made.
ConnectOpen(c) ==
  /\ Running
  /\ tts.connPend[c] # "none"
  /\ tts.connPend[c] = "cur" => tts.websocket = "connecting"
  /\ ConnectResolved(c, [tts EXCEPT !.connPend[c] = "none",
                                    !.idle = FALSE,
                                    !.websocket = IF tts.connPend[c] = "cur"
                                                  THEN "open" ELSE @])
  /\ UNCHANGED <<crashed, userConfig, ringback, dgOpen, messages,
                 collectedData, llmCalls, closeTimers, sendCtx, nAccepted,
                 nDiscarded, updLog,
                 audioOut, routerVars, stopVars, webhook, media,
                 late, sideVars>>

\* 'error' on that socket.
ConnectError(c) ==
  /\ Running
  /\ tts.connPend[c] # "none"
  /\ ConnectRejected(c, [tts EXCEPT !.connPend[c] = "none",
                                    !.websocket = IF tts.connPend[c] = "cur"
                                                  THEN "closed" ELSE @])
  /\ UNCHANGED <<crashed, userConfig, ringback, dgOpen, messages, transcript,
                 collectedData, llmCalls, closeTimers, sendCtx, llmReq,
                 nAccepted, nDiscarded, updLog,
                 audioOut, routerVars, stopVars, webhook, media,
                 late, sideVars>>

\* The 5 s timer of connect(): this.websocket.close(), then reject.  The
\* close() acts on whatever this.websocket is by then: on null it throws
\* out of the timer callback.
ConnectTimeout(c) ==
  /\ Running
  /\ tts.connPend[c] # "none"
  /\ IF tts.websocket = "null"
     THEN /\ crashed' = TRUE
          /\ UNCHANGED <<wsState, isSpeaking, pc, tts>>
     ELSE /\ ConnectRejected(c, [tts EXCEPT !.connPend[c] = "none",
                                            !.websocket = "closed"])
          /\ UNCHANGED crashed
  /\ UNCHANGED <<userConfig, ringback, dgOpen, messages, transcript,
                 collectedData, llmCalls, closeTimers, sendCtx, llmReq,
                 nAccepted, nDiscarded, updLog,
                 audioOut, routerVars, stopVars, webhook, media,
                 late, sideVars>>

\* ---------------------------------------------------------- onTranscript
Utterances == {<<"toilet", "quogged">>}

\* The corrections table, and the order in which Object.entries yields it.
CorrectionOrder ==
  <<"quogged", "quarked", "corked", "clocked", "cloged", "clagged", "cogged",
    "quoged", "clogt", "leek", "leke", "drane", "drayne", "fossit", "fausit",
    "fosset", "toylet", "tolet", "plumer", "plummer">>

Corrections ==
  [w \in {CorrectionOrder[i] : i \in DOMAIN CorrectionOrder} |->
     IF w \in {"leek", "leke"} THEN "leak"
     ELSE IF w \in {"drane", "drayne"} THEN "drain"
     ELSE IF w \in {"fossit", "fausit", "fosset"} THEN "faucet"
     ELSE IF w \in {"toylet", "tolet"} THEN "toilet"
     ELSE IF w \in {"plumer", "plummer"} THEN "plumber"
     ELSE "clogged"]

\* The words of a text (its maximal runs of word characters) as the 'i'
\* flag of the pattern compares them.
LowerCase(w) ==
  IF w = "Quogged" THEN "quogged" ELSE IF w = "LEEK" THEN "leek" ELSE w

\* A table in which a replacement is a key that comes earlier (a mutation
\* of the table).
RightChained(wrong) == IF wrong = "corked" THEN "quogged" ELSE Corrections[wrong]

\* The replacement of an entry.
Right(wrong) == Corrections[wrong]

\* One entry of the loop: regex.test, then replace of every whole word that
\* matches \bwrong\b without regard to case.
ApplyCorrection(text, wrong) ==
  [i \in DOMAIN text |-> IF LowerCase(text[i]) = wrong THEN Right(wrong) ELSE text[i]]

RECURSIVE ApplyCorrections(_, _)
ApplyCorrections(text, entries) ==
  IF entries = <<>> THEN text
  ELSE ApplyCorrections(ApplyCorrection(text, Head(entries)), Tail(entries))

\* correctPlumbingTerms: the entries are applied one after the other.
CorrectPlumbingTerms(text) == ApplyCorrections(text, CorrectionOrder)

\* if (isSpeaking) { ...; return; }
NoDiscard == FALSE

Discard == isSpeaking

FreeSlot(c) == c \in Turns /\ pc[c] = "idle" /\ \A d \in Turns : d < c => pc[d] # "idle"

\* A finalized utterance is delivered by the recognition connection.
OnTranscript ==
  /\ Running
  /\ dgOpen
  /\ \E u \in Utterances :
       IF Discard
       THEN /\ nDiscarded < MaxDiscards
            /\ nDiscarded' = nDiscarded + 1
            /\ UNCHANGED <<messages, transcript, pc, llmReq, nAccepted>>
       ELSE \E c \in Turns :
            /\ FreeSlot(c)
            /\ nAccepted < MaxTurns
            /\ nAccepted' = nAccepted + 1
            /\ transcript' = Append(transcript, Line("user", CorrectPlumbingTerms(u)))
            /\ messages' = Append(messages, Msg("user", CorrectPlumbingTerms(u), <<>>))
            /\ llmReq' = [llmReq EXCEPT ![c] =
                            ChatRequest(userConfig # "demo", Len(messages) + 1)]
            /\ pc' = [pc EXCEPT ![c] = "chat"]
            /\ UNCHANGED nDiscarded
  /\ UNCHANGED <<wsState, crashed, userConfig, ringback, dgOpen, isSpeaking,
                 collectedData, llmCalls, closeTimers, sendCtx, tts, updLog,
                 audioOut, routerVars, stopVars, webhook, media,
                 late, sideVars>>

\* The tool-call lists a reasoning call may return in a turn.
Ids(calls) == [i \in DOMAIN calls |-> calls[i].id]

TurnToolCalls ==
  {<<ToolCall(1, UPDATE, TRUE, [f \in {"issue"} |-> "v1"])>>,
   <<ToolCall(1, UPDATE, TRUE, [f \in {"issue"} |-> "v2"]),
     ToolCall(2, ENDCALL, TRUE, <<>>)>>,
   <<ToolCall(1, OTHERTOOL, TRUE, <<>>)>>,
   <<ToolCall(1, UPDATE, FALSE, <<>>)>>}

\* Append the tool entries without the last one (a mutation of RunTools).
RunToolsDropLast(st, msgs, calls) ==
  LET r == RunTools(st, msgs, calls)
  IN IF r.st.threw \/ calls = <<>> THEN r
     ELSE [r EXCEPT !.msgs = SubSeq(@, 1, Len(@) - 1)]

\* The tool loop of onTranscript (lines 454-478).
ToolLoop(st, msgs, calls) == RunTools(st, msgs, calls)

\* The provider call that LLMRouter.chat awaits throws (the greeting's call
\* or a turn's).  In auto mode an error of the primary that _shouldFallback
\* accepts starts the one call of the fallback provider; every other error
\* leaves chat: initialize closes the transport, onTranscript speaks the
\* fallback phrase.
ChatFails(c) ==
  /\ Running
  /\ pc[c] \in {"chat", "greet"}
  /\ \E error \in ProviderErrors :
       IF llmProvider = "auto" /\ ~llmReq[c].isFallback /\ ShouldFallback(error)
       THEN /\ llmReq' = [llmReq EXCEPT ![c] = FallbackRequest(@)]
            /\ route' = [route EXCEPT ![c] =
                           [NoRoute EXCEPT !.primary = error.kind,
                                           !.fallback = "called",
                                           !.result = "pending"]]
            /\ UNCHANGED <<wsState, isSpeaking, messages, transcript, pc,
                           sendCtx, tts>>
       ELSE /\ llmReq' = [llmReq EXCEPT ![c] = NoReq]
            /\ route' = [route EXCEPT ![c] = Threw(c, error)]
            /\ IF pc[c] = "greet"
               THEN /\ InitializeFails
                    /\ UNCHANGED <<messages, transcript, isSpeaking, sendCtx, tts>>
               ELSE /\ SpeakFallback(c, messages)
                    /\ UNCHANGED wsState
  /\ UNCHANGED <<crashed, userConfig, ringback, dgOpen, collectedData,
                 llmCalls, closeTimers, nAccepted, nDiscarded, updLog,
                 audioOut, llmProvider, metrics, stopVars, webhook, media,
                 late, sideVars>>

\* llmRouter.chat of a turn returns a response.  Only the groq client's
\* response has a toolCalls field.
ChatReturns(c) ==
  /\ Running
  /\ c \in Turns
  /\ pc[c] = "chat"
  /\ metrics' = TrackLLMUsage(metrics, llmReq[c].provider, llmReq[c].isFallback)
  /\ \/ \* groq: {content, toolCalls: message.tool_calls}; response.toolCalls
        \* is not empty
        /\ llmReq[c].tools
        /\ llmReq[c].provider = "groq"
        /\ route' = [route EXCEPT ![c] = Requested(Served(c))]
        /\ \E calls \in TurnToolCalls :
             LET r == ToolLoop(ToolState,
                               Append(messages, Msg("assistant", <<>>, Ids(calls))),
                               calls)
             IN /\ llmCalls' = llmCalls + 1
                /\ collectedData' = r.st.data
                /\ closeTimers' = r.st.timers
                /\ updLog' = r.st.log
                /\ IF r.st.threw
                   THEN /\ SpeakFallback(c, r.msgs)
                        /\ llmReq' = [llmReq EXCEPT ![c] = NoReq]
                   ELSE /\ messages' = r.msgs
                        /\ llmReq' = [llmReq EXCEPT ![c] =
                                        ChatWithToolResults(calls, Len(r.msgs))]
                        /\ pc' = [pc EXCEPT ![c] = "followup"]
                        /\ UNCHANGED <<isSpeaking, transcript, sendCtx, tts>>
     \/ \* gemini: {content: null, functionCall: {name, arguments}}; the
        \* response has no toolCalls field and no content
        /\ llmReq[c].tools
        /\ llmReq[c].provider = "gemini"
        /\ route' = [route EXCEPT ![c] = Requested(Served(c))]
        /\ llmCalls' = llmCalls + 1
        /\ llmReq' = [llmReq EXCEPT ![c] = NoReq]
        /\ TurnEndsSilent(c)
        /\ UNCHANGED <<messages, collectedData, closeTimers, updLog>>
     \/ \* no tool calls
        /\ route' = [route EXCEPT ![c] = Served(c)]
        /\ \E content \in LlmContents :
             LET cleanContent == StripFunctionCalls(content)
             IN /\ llmCalls' = llmCalls + 1
                /\ llmReq' = [llmReq EXCEPT ![c] = NoReq]
                /\ IF content # <<>> /\ Len(cleanContent) > 0
                   THEN /\ messages' = Append(messages, Msg("assistant", cleanContent, <<>>))
                        /\ SendAIResponse(c, cleanContent, "reply", transcript)
                   ELSE /\ TurnEndsSilent(c)
                        /\ UNCHANGED messages
                /\ UNCHANGED <<collectedData, closeTimers, updLog>>
  /\ UNCHANGED <<wsState, crashed, userConfig, ringback, dgOpen, nAccepted,
                 nDiscarded, audioOut, llmProvider, stopVars, webhook, media,
                 late, sideVars>>

\* llmRouter.chatWithToolResults settles: the groq client only, no fallback.
FollowUpReturns(c) ==
  /\ Running
  /\ c \in Turns
  /\ pc[c] = "followup"
  /\ llmReq' = [llmReq EXCEPT ![c] = NoReq]
  /\ \/ /\ SpeakFallback(c, messages)
        /\ UNCHANGED <<llmCalls, metrics>>
     \/ \E content \in LlmContents :
          LET cleanContent == StripFunctionCalls(content)
          IN /\ llmCalls' = llmCalls + 1
             /\ metrics' = TrackLLMUsage(metrics, "groq", FALSE)
             /\ IF content # <<>>
                THEN /\ messages' = Append(messages, Msg("assistant", cleanContent, <<>>))
                     /\ SendAIResponse(c, cleanContent, "reply", transcript)
                ELSE /\ TurnEndsSilent(c)
                     /\ UNCHANGED messages
  /\ UNCHANGED <<wsState, crashed, userConfig, ringback, dgOpen, collectedData,
                 closeTimers, nAccepted, nDiscarded, updLog,
                 audioOut, llmProvider, route, stopVars, webhook, media,
                 late, sideVars>>

\* ------------------------------------------------- the Twilio socket
\* setTimeout(() => ws.close(), 5000) of end_call_with_summary fires.
EndCallTimer ==
  /\ Running
  /\ closeTimers > 0
  /\ closeTimers' = closeTimers - 1
  /\ wsState' = WsClose(wsState)
  /\ UNCHANGED <<crashed, userConfig, ringback, dgOpen, isSpeaking, messages,
                 transcript, collectedData, llmCalls, pc, sendCtx, llmReq, tts,
                 nAccepted, nDiscarded, updLog,
                 audioOut, routerVars, stopVars, webhook, media,
                 late, sideVars>>

\* ws 'close': closeStream on the recognizer, cartesia.disconnect().
WsClosed ==
  /\ Running
  /\ wsState = "closing"
  /\ wsState' = "closed"
  /\ dgOpen' = FALSE
  /\ tts' = IF tts.exists THEN Disconnect(tts) ELSE tts
  /\ late' = IF tts.exists THEN late \cup Listeners ELSE late
  /\ UNCHANGED <<crashed, userConfig, ringback, isSpeaking, messages,
                 transcript, collectedData, llmCalls, closeTimers, pc, sendCtx,
                 llmReq, nAccepted, nDiscarded, updLog,
                 audioOut, routerVars, stopVars, webhook, media,
                 sideVars>>

\* ------------------------------------------------- the 'media' message
\* if (deepgramConnection && msg.media?.payload): the frame is handed to
\* deepgram.sendAudio, whose send is inside a try/catch.
ForwardWhenListening(conn, payload, speaking) == conn /\ payload /\ ~speaking

ForwardFrame(conn, payload, speaking) == conn /\ payload

\* What the session is doing when a frame arrives.
Phase ==
  IF pc[0] \notin {"idle", "done", "failed"} THEN "warm-up"
  ELSE IF isSpeaking THEN "speaking" ELSE "listening"

\* A 'media' message of the stream: one synchronous branch of the handler.
TwilioMedia ==
  /\ Running
  /\ wsState \in {"open", "closing"}
  /\ stopPc = "none"
  /\ media.forwarded + media.dropped < MaxFrames
  /\ \E payload \in BOOLEAN :
       media' = [conn |-> media.conn,
                 forwarded |-> media.forwarded +
                   (IF ForwardFrame(media.conn, payload, isSpeaking) THEN 1 ELSE 0),
                 dropped |-> media.dropped +
                   (IF ForwardFrame(media.conn, payload, isSpeaking) THEN 0 ELSE 1),
                 payload |-> payload,
                 during |-> Phase]
  /\ UNCHANGED <<wsState, crashed, userConfig, ringback, dgOpen, isSpeaking,
                 messages, transcript, collectedData, llmCalls, closeTimers,
                 pc, sendCtx, llmReq, tts, nAccepted, nDiscarded, updLog,
                 audioOut, routerVars, stopVars, webhook, late,
                 sideVars>>

\* ---------------------------------------------------- the 'stop' message
\* An error thrown while a connection is closed leaves the function that
\* closes it (a mutation of CloseStreamThrows).
CloseStreamLeaks(fails) == fails

\* deepgram.closeStream: connection.finish() inside try/catch, the error is
\* logged.
CloseStreamThrows(fails) == FALSE

\* cartesia.disconnect(): websocket.close() inside try/catch; when close()
\* throws, this.websocket = null is skipped and the error is logged.
DisconnectThrows(fails) == FALSE

\* sendToWebhook(userId, callData) as finalize calls it, up to its first
\* await: the fetch of post-call.js, or extractFromTranscript in the
\* version that retries (MAX_RETRIES attempts with backoff).
SendToWebhook(version) ==
  [NoWebhook EXCEPT !.version = version,
                    !.pc = IF version = "retry" THEN "extract" ELSE "fetch"]

\* What one HTTP attempt of sendToWebhook can do.
FetchOutcomes == {"ok", "error status", "network error", "timeout"}

\* A catch that rethrows (a mutation of CatchWebhookError).
RethrowWebhookError(outcome) == "threw"

\* catch (error) { ...; return { error: error.message }; }
CatchWebhookError(outcome) == "error"

\* sendToWebhook settles with result and finalize resumes: onCallEnd()
\* after the await, or the catch of finalize when sendToWebhook threw.
WebhookSettles(result) ==
  /\ webhook' = [webhook EXCEPT !.pc = "done", !.result = result,
                                !.ended = (result # "threw")]
  /\ metrics' = IF result # "threw" THEN OnCallEnd(metrics) ELSE metrics
  /\ stopPc' = "done"

\* ws 'message' with event 'stop': closeStream, await cartesia.disconnect(),
\* await finalize() up to its await of sendToWebhook.  An error that left
\* one of the two closing calls would end in the handler's catch.
TwilioStop ==
  /\ Running
  /\ wsState \in {"open", "closing"}
  /\ pc[0] # "idle"
  /\ stopPc = "none"
  /\ \E dgFails \in {f \in BOOLEAN : f => dgOpen},
        ttsFails \in {f \in BOOLEAN : f => (tts.exists /\ tts.websocket = "open")},
        version \in {"single", "retry"} :
       /\ dgOpen' = (dgOpen /\ dgFails)
       /\ teardown' =
            [deepgram |-> IF ~dgOpen THEN "none"
                          ELSE IF dgFails THEN "failed" ELSE "closed",
             cartesia |-> IF dgOpen /\ CloseStreamThrows(dgFails) THEN "none"
                          ELSE IF ~tts.exists THEN "none"
                          ELSE IF ttsFails THEN "failed" ELSE "closed"]
       /\ tts' = IF dgOpen /\ CloseStreamThrows(dgFails) THEN tts
                 ELSE IF tts.exists /\ ~ttsFails THEN Disconnect(tts) ELSE tts
       /\ IF \/ dgOpen /\ CloseStreamThrows(dgFails)
             \/ tts.exists /\ DisconnectThrows(ttsFails)
          THEN /\ stopPc' = "done"
               /\ UNCHANGED finalizeCalls
          ELSE /\ stopPc' = "webhook"
               /\ finalizeCalls' = finalizeCalls + 1
       /\ webhook' = IF stopPc' = "webhook" THEN SendToWebhook(version) ELSE webhook
       /\ late' = IF tts'.websocket # tts.websocket THEN late \cup Listeners ELSE late
  /\ UNCHANGED <<wsState, crashed, userConfig, ringback, isSpeaking, messages,
                 transcript, collectedData, llmCalls, closeTimers, pc, sendCtx,
                 llmReq, nAccepted, nDiscarded, updLog, audioOut, routerVars,
                 media, sideVars>>

\* extractFromTranscript (retry version) settles.  It is awaited outside
\* every try of sendToWebhook: when it throws, sendToWebhook throws.
ExtractReturns ==
  /\ Running
  /\ webhook.pc = "extract"
  /\ \/ /\ webhook' = [webhook EXCEPT !.pc = "fetch"]
        /\ UNCHANGED <<stopPc, metrics>>
     \/ WebhookSettles("threw")
  /\ UNCHANGED <<wsState, crashed, userConfig, ringback, dgOpen, isSpeaking,
                 messages, transcript, collectedData, llmCalls, closeTimers,
                 pc, sendCtx, llmReq, tts, nAccepted, nDiscarded, updLog,
                 audioOut, llmProvider, route, finalizeCalls, teardown,
                 media, late, sideVars>>

\* One HTTP attempt settles: the response is ok, or the attempt throws
\* (status not ok, network error, AbortSignal.timeout).  The single-attempt
\* version returns the error value; the retry version backs off, and after
\* its last attempt alerts and returns the error value.
FetchSettles ==
  /\ Running
  /\ webhook.pc = "fetch"
  /\ \E outcome \in FetchOutcomes :
       IF outcome = "ok"
       THEN WebhookSettles("ok")
       ELSE IF webhook.version = "single"
       THEN WebhookSettles(CatchWebhookError(outcome))
       ELSE IF webhook.attempt = MAX_RETRIES - 1
       THEN IF CatchWebhookError(outcome) = "threw"
            THEN WebhookSettles("threw")
            ELSE /\ webhook' = [webhook EXCEPT !.pc = "alert"]
                 /\ UNCHANGED <<stopPc, metrics>>
       ELSE /\ webhook' = [webhook EXCEPT !.pc = "backoff"]
            /\ UNCHANGED <<stopPc, metrics>>
  /\ UNCHANGED <<wsState, crashed, userConfig, ringback, dgOpen, isSpeaking,
                 messages, transcript, collectedData, llmCalls, closeTimers,
                 pc, sendCtx, llmReq, tts, nAccepted, nDiscarded, updLog,
                 audioOut, llmProvider, route, finalizeCalls, teardown,
                 media, late, sideVars>>

\* The backoff timer of the retry loop fires: the next attempt.
BackoffElapsed ==
  /\ Running
  /\ webhook.pc = "backoff"
  /\ webhook' = [webhook EXCEPT !.pc = "fetch", !.attempt = @ + 1]
  /\ UNCHANGED <<wsState, crashed, userConfig, ringback, dgOpen, isSpeaking,
                 messages, transcript, collectedData, llmCalls, closeTimers,
                 pc, sendCtx, llmReq, tts, nAccepted, nDiscarded, updLog,
                 audioOut, routerVars, stopVars,
                 media, late, sideVars>>

\* await notifyPumble(...) after the last attempt is over (notifyPumble
\* catches its own errors): return { error: error.message }.
AlertReturns ==
  /\ Running
  /\ webhook.pc = "alert"
  /\ WebhookSettles("error")
  /\ UNCHANGED <<wsState, crashed, userConfig, ringback, dgOpen, isSpeaking,
                 messages, transcript, collectedData, llmCalls, closeTimers,
                 pc, sendCtx, llmReq, tts, nAccepted, nDiscarded, updLog,
                 audioOut, llmProvider, route, finalizeCalls, teardown,
                 media, late, sideVars>>

\* After its 'stop' message the media stream closes the socket from its
\* side; the 'close' event follows.
TwilioHangsUp ==
  /\ Running
  /\ stopPc # "none"
  /\ wsState = "open"
  /\ wsState' = "closing"
  /\ UNCHANGED <<crashed, userConfig, ringback, dgOpen, isSpeaking, messages,
                 transcript, collectedData, llmCalls, closeTimers, pc, sendCtx,
                 llmReq, tts, nAccepted, nDiscarded, updLog,
                 audioOut, routerVars, stopVars, webhook, media,
                 late, sideVars>>

\* ------------------------------------------- the synthesis connection

\* disconnect() of the 'stop' and 'close' handlers closes the socket and
\* drops the reference; the handlers of a pending speakText stay on the
\* socket object (cleanup has not run).  These are the callers whose
\* handlers are on such a socket and whose request has not been sent again.
LateListeners ==
  {c \in late : tts.req[c] = "speaking" /\ ~tts.onCur[c]}

\* ws.send(JSON.stringify({event: 'media', ...})) of the chunk callback.
SendToTransport(out, chunk) == Append(out, chunk)

\* A 'chunk' message that the gateway had sent before it saw the close
\* arrives on the socket being closed: onMessage counts it and hands it to
\* onAudioChunk as it does on an open one.
LateChunk ==
  /\ Running
  /\ \E c \in LateListeners : tts.chunkCount[c] < MaxChunks
  /\ tts' = [tts EXCEPT !.chunkCount =
               [c \in Callers |-> IF c \in LateListeners /\ @[c] < MaxChunks
                                  THEN @[c] + 1 ELSE @[c]]]
  /\ audioOut' = [c \in Callers |->
                    IF c \in LateListeners /\ tts.chunkCount[c] < MaxChunks
                    THEN SendToTransport(audioOut[c],
                                         <<tts.attempt[c], tts.chunkCount[c] + 1>>)
                    ELSE audioOut[c]]
  /\ UNCHANGED <<wsState, crashed, userConfig, ringback, dgOpen, isSpeaking,
                 messages, transcript, collectedData, llmCalls, closeTimers,
                 pc, sendCtx, llmReq, nAccepted, nDiscarded, updLog,
                 routerVars, stopVars, webhook, media,
                 late, sideVars>>

\* A 'chunk' message: every attached onMessage counts it and hands it to
\* onAudioChunk, which sends it to the transport (sendAIResponse 657-671).
CartesiaChunk ==
  /\ Running
  /\ \E c \in Listeners : tts.chunkCount[c] < MaxChunks
  /\ tts' = [tts EXCEPT !.chunkCount =
               [c \in Callers |-> IF c \in Listeners /\ @[c] < MaxChunks
                                  THEN @[c] + 1 ELSE @[c]]]
  /\ audioOut' = [c \in Callers |->
                    IF c \in Listeners /\ tts.chunkCount[c] < MaxChunks
                    THEN SendToTransport(audioOut[c],
                                         <<tts.attempt[c], tts.chunkCount[c] + 1>>)
                    ELSE audioOut[c]]
  /\ UNCHANGED <<wsState, crashed, userConfig, ringback, dgOpen, isSpeaking,
                 messages, transcript, collectedData, llmCalls, closeTimers,
                 pc, sendCtx, llmReq, nAccepted, nDiscarded, updLog,
                 routerVars, stopVars, webhook, media,
                 late, sideVars>>

\* A 'done' message: timers cleared, lastActivity set, cleanup, resolve.
CartesiaDone ==
  /\ Running
  /\ Listeners # {}
  /\ tts' = SettleAll([tts EXCEPT !.idle = FALSE], Listeners, "resolved")
  /\ UNCHANGED <<crashed, sessionVars>>

\* An 'error' message: timers cleared, cleanup, reject.
CartesiaErrorMessage ==
  /\ Running
  /\ Listeners # {}
  /\ tts' = SettleAll(tts, Listeners, "gateway error")
  /\ UNCHANGED <<crashed, sessionVars>>

\* 'error' on the open socket, which then closes: onError rejects.
CartesiaSocketError ==
  /\ Running
  /\ tts.websocket = "open"
  /\ tts' = SettleAll([tts EXCEPT !.websocket = "closed"], Listeners, "socket error")
  /\ UNCHANGED <<crashed, sessionVars>>

\* The service closes the socket; speakText listens for no 'close'.
CartesiaSocketClose ==
  /\ Running
  /\ tts.websocket = "open"
  /\ tts' = [tts EXCEPT !.websocket = "closed"]
  /\ UNCHANGED <<crashed, sessionVars>>

\* hardTimeout of speakText fires 10 s after the send.  With no chunk so
\* far: cleanup() (this.websocket.removeListener, a TypeError on null),
\* reject with 'TTS timeout', and speakTextWithRetry either disconnects and
\* pauses 100 ms or, on the last attempt, throws.  With a chunk: nothing.
HardTimeoutFires(c) ==
  /\ Running
  /\ tts.hardTimeout[c]
  /\ IF ~NoChunkYet(tts, c)
     THEN /\ tts' = [tts EXCEPT !.hardTimeout[c] = FALSE]
          /\ UNCHANGED crashed
     ELSE IF tts.websocket = "null"
     THEN /\ tts' = [tts EXCEPT !.hardTimeout[c] = FALSE]
          /\ crashed' = TRUE
     ELSE /\ tts' = SpeakTextRejected(tts, c, "timeout")
          /\ UNCHANGED crashed
  /\ UNCHANGED sessionVars

\* The 100 ms pause of speakTextWithRetry is over: connect(currentVoiceId).
RetryPauseElapsed(c) ==
  /\ Running
  /\ tts.req[c] = "pause"
  /\ tts' = Connect([tts EXCEPT !.req[c] = "reconnect"], c)
  /\ UNCHANGED <<crashed, sessionVars>>

\* Date.now() - lastActivity passes IDLE_THRESHOLD (270 s).  Every timer of
\* the call is far shorter, and so is a reasoning request: none is pending.
IdleElapses ==
  /\ Running
  /\ tts.exists
  /\ ~tts.idle
  /\ closeTimers = 0
  /\ ringback # "playing"
  /\ \A c \in Callers :
       /\ ~tts.hardTimeout[c]
       /\ tts.req[c] # "pause"
       /\ tts.connPend[c] = "none"
       /\ pc[c] \notin {"config", "prompt", "greet", "chat", "followup", "playback"}
  /\ tts' = [tts EXCEPT !.idle = TRUE]
  /\ UNCHANGED <<crashed, sessionVars>>

\* ------------------------------------------------------- specification
Next ==
  \/ TwilioStart
  \/ ConfigReturns
  \/ PromptReturns
  \/ RingbackEnds
  \/ RingbackAwaited
  \/ GreetingReturns
  \/ OnTranscript
  \/ EndCallTimer
  \/ WsClosed
  \/ TwilioMedia
  \/ TwilioStop
  \/ ExtractReturns
  \/ FetchSettles
  \/ BackoffElapsed
  \/ AlertReturns
  \/ TwilioHangsUp
  \/ LateChunk
  \/ CartesiaChunk
  \/ CartesiaDone
  \/ CartesiaErrorMessage
  \/ CartesiaSocketError
  \/ CartesiaSocketClose
  \/ IdleElapses
  \/ \E c \in Callers :
       \/ ConnectOpen(c)
       \/ ConnectError(c)
       \/ ConnectTimeout(c)
       \/ ChatReturns(c)
       \/ ChatFails(c)
       \/ FollowUpReturns(c)
       \/ SendResumes(c)
       \/ PlaybackDone(c)
       \/ SendThrew(c)
       \/ HardTimeoutFires(c)
       \/ RetryPauseElapsed(c)

Spec == Init /\ [][Next]_vars

\* The call as initialize leaves it when the greeting has been played:
\* system prompt and greeting in messages, the greeting pushed to the
\* display transcript by initialize and again by sendAIResponse.
ListeningOn(config, provider) ==
  /\ wsState = "open"
  /\ crashed = FALSE
  /\ userConfig = config
  /\ ringback = "done"
  /\ dgOpen = TRUE
  /\ isSpeaking = FALSE
  /\ messages = <<Msg("system", <<"prompt">>, <<>>), Msg("assistant", <<"ok">>, <<>>)>>
  /\ transcript = <<Line("ai", <<"ok">>), Line("ai", <<"ok">>)>>
  /\ collectedData = [f \in Fields |-> NullV]
  /\ llmCalls = 0
  /\ closeTimers = 0
  /\ pc = [c \in Callers |-> IF c = 0 THEN "done" ELSE "idle"]
  /\ sendCtx = [c \in Callers |-> NoSend]
  /\ llmReq = [c \in Callers |-> NoReq]
  /\ tts = [CartesiaInit EXCEPT !.exists = TRUE, !.websocket = "open"]
  /\ nAccepted = 0
  /\ nDiscarded = 0
  /\ updLog = <<>>
  /\ audioOut = [c \in Callers |-> <<>>]
  /\ llmProvider = provider
  /\ metrics = OnCallStart(NoMetrics)
  /\ route = [c \in Callers |-> NoRoute]
  /\ stopPc = "none"
  /\ finalizeCalls = 0
  /\ teardown = NoTeardown
  /\ webhook = NoWebhook
  /\ media = [NoMedia EXCEPT !.conn = TRUE]
  /\ late = {}
  /\ recog = NoRecog
  /\ utter = NoUtter
  /\ streams = NoCalls

\* The same with LLM_PROVIDER=groq: the router calls one provider and
\* passes its errors on.
Listening(config) == ListeningOn(config, "groq")

\* The synthesis side of a call: its connection, its timers, its callers.
Synthesis ==
  \/ CartesiaChunk
  \/ CartesiaDone
  \/ CartesiaErrorMessage
  \/ CartesiaSocketError
  \/ CartesiaSocketClose
  \/ IdleElapses
  \/ \E c \in Callers :
       \/ ConnectOpen(c)
       \/ ConnectError(c)
       \/ ConnectTimeout(c)
       \/ SendResumes(c)
       \/ PlaybackDone(c)
       \/ SendThrew(c)
       \/ HardTimeoutFires(c)
       \/ RetryPauseElapsed(c)

\* A demo call (is_demo: no tools are offered) after its greeting, with
\* utterances arriving at any time.
InitDemoCall == Listening("demo")

NextDemoCall ==
  \/ OnTranscript
  \/ \E c \in Turns : ChatReturns(c) \/ ChatFails(c)
  \/ Synthesis

SpecDemoCall == InitDemoCall /\ [][NextDemoCall]_vars

\* A client call (tools offered) after its greeting, with a caller who
\* speaks only when no turn is in progress or while the assistant speaks.
OnTranscriptInTurn ==
  /\ isSpeaking \/ \A c \in Turns : pc[c] = "idle"
  /\ OnTranscript

InitClientCall == Listening("client")

NextClientCall ==
  \/ OnTranscriptInTurn
  \/ EndCallTimer
  \/ WsClosed
  \/ \E c \in Turns : ChatReturns(c) \/ ChatFails(c) \/ FollowUpReturns(c)
  \/ Synthesis

SpecClientCall == InitClientCall /\ [][NextClientCall]_vars

\* A client call with LLM_PROVIDER unset (auto): the router may fail over
\* from groq to gemini.  The caller speaks as in SpecClientCall.
InitFailover == ListeningOn("client", "auto")

NextFailover ==
  \/ OnTranscriptInTurn
  \/ \E c \in Turns : ChatReturns(c) \/ ChatFails(c) \/ FollowUpReturns(c)
  \/ Synthesis

SpecFailover == InitFailover /\ [][NextFailover]_vars

\* A call from its 'start' message on: the warm-up of initialize, and the
\* first utterance the session accepts.
OnTranscriptFirst ==
  /\ nAccepted = 0
  /\ OnTranscript

NextWarmUp ==
  \/ TwilioStart
  \/ ConfigReturns
  \/ PromptReturns
  \/ RingbackEnds
  \/ RingbackAwaited
  \/ GreetingReturns
  \/ OnTranscriptFirst
  \/ EndCallTimer
  \/ WsClosed
  \/ \E c \in Callers : ChatReturns(c) \/ ChatFails(c) \/ FollowUpReturns(c)
  \/ Synthesis

SpecWarmUp == Init /\ [][NextWarmUp]_vars

\* A call from its 'start' message on, with the media frames of the caller
\* arriving at any moment of the warm-up and of the first turn.
NextMedia ==
  \/ NextWarmUp
  \/ TwilioMedia

SpecMedia == Init /\ [][NextMedia]_vars

\* A client call after its greeting up to its end: one turn of the caller,
\* then the 'stop' message of the media stream or the close that
\* end_call_with_summary scheduled.
InitTermination == Listening("client")

NextTermination ==
  \/ OnTranscriptFirst
  \/ EndCallTimer
  \/ WsClosed
  \/ TwilioStop
  \/ ExtractReturns
  \/ FetchSettles
  \/ BackoffElapsed
  \/ AlertReturns
  \/ TwilioHangsUp
  \/ LateChunk
  \/ \E c \in Turns : ChatReturns(c) \/ ChatFails(c) \/ FollowUpReturns(c)
  \/ Synthesis

SpecTermination == InitTermination /\ [][NextTermination]_vars

\* A call from its 'start' message to its end: the warm-up, the first
\* utterance, and the 'stop' message when initialize has returned and no
\* turn is in progress.
TwilioStopBetweenTurns ==
  /\ pc[0] = "done"
  /\ \A c \in Turns : pc[c] = "idle"
  /\ TwilioStop

NextWholeCall ==
  \/ NextWarmUp
  \/ TwilioStopBetweenTurns
  \/ ExtractReturns
  \/ FetchSettles
  \/ BackoffElapsed
  \/ AlertReturns

SpecWholeCall == Init /\ [][NextWholeCall]_vars

\* ------------------------------------------------ the correction pass
\* The words of the texts: every key of the table, keys in other case, the
\* replacements, and words the table does not know.
Vocabulary ==
  DOMAIN Corrections \cup {"Quogged", "LEEK"}
    \cup {Corrections[w] : w \in DOMAIN Corrections} \cup {"sink", "cork"}

Texts == UNION {[1..n -> Vocabulary] : n \in 0..MaxWords}

InitCorrection ==
  /\ Constructed
  /\ \E t \in Texts : utter = [original |-> t, text |-> t, passes |-> 0]

\* correctPlumbingTerms applied to the text, and again to its result.
CorrectionPass ==
  /\ utter.passes < 2
  /\ utter' = [utter EXCEPT !.text = CorrectPlumbingTerms(@), !.passes = @ + 1]
  /\ UNCHANGED <<wsState, crashed, userConfig, ringback, dgOpen, isSpeaking,
                 messages, transcript, collectedData, llmCalls, closeTimers,
                 pc, sendCtx, llmReq, tts, nAccepted, nDiscarded, updLog,
                 audioOut, routerVars, stopVars, webhook, media, late, recog, streams>>

NextCorrection == CorrectionPass

SpecCorrection == InitCorrection /\ [][NextCorrection]_vars

\* ------------------------------------------- the recognition stream
\* The texts a Transcript event may carry: none (<<>> is '' or undefined)
\* or a sequence of words.
SegmentTexts == {<<>>, <<"my">>, <<"sink", "leaks">>}

\* segments.join(' '): the words of the segments in order.
RECURSIVE Join(_)
Join(segments) ==
  IF segments = <<>> THEN <<>> ELSE Head(segments) \o Join(Tail(segments))

\* The segments stay after a flush (a mutation without the reset).
KeepSegments(segments) == segments

\* transcriptSegments = [] after onTranscript was called.
ResetSegments(segments) == <<>>

\* if (transcriptSegments.length > 0) { onTranscript(join); reset }
Flush(r) ==
  IF Len(r.transcriptSegments) > 0
  THEN [r EXCEPT !.delivered = Append(@, Join(r.transcriptSegments)),
                 !.transcriptSegments = ResetSegments(@)]
  ELSE r

\* The Transcript handler: a non-empty is_final text is pushed; then
\* speech_final flushes what is pending.
OnTranscriptEvent(r, text, isFinal, speechFinal) ==
  LET pushed == IF Len(text) > 0 /\ isFinal
                THEN [r EXCEPT !.transcriptSegments = Append(@, text),
                               !.finals = Append(@, text)]
                ELSE r
  IN IF speechFinal THEN Flush(pushed) ELSE pushed

RecogQuiet ==
  UNCHANGED <<wsState, crashed, userConfig, ringback, dgOpen, isSpeaking,
              messages, transcript, collectedData, llmCalls, closeTimers, pc,
              sendCtx, llmReq, tts, nAccepted, nDiscarded, updLog, audioOut,
              routerVars, stopVars, webhook, media, late,
              utter, streams>>

\* LiveTranscriptionEvents.Transcript
TranscriptEvent ==
  /\ \E text \in SegmentTexts, isFinal \in BOOLEAN, speechFinal \in BOOLEAN :
       /\ (Len(text) > 0 /\ isFinal) => Len(recog.finals) < MaxSegments
       /\ recog' = OnTranscriptEvent(recog, text, isFinal, speechFinal)
  /\ RecogQuiet

\* LiveTranscriptionEvents.UtteranceEnd
UtteranceEndEvent ==
  /\ recog' = Flush(recog)
  /\ RecogQuiet

NextRecognition ==
  \/ TranscriptEvent
  \/ UtteranceEndEvent

SpecRecognition == Init /\ [][NextRecognition]_vars

\* ------------------------------------------------ two concurrent calls
\* handleTwilioStream runs once per connection.  Its variables (isSpeaking,
\* transcript, collectedData, ...) are declared inside the function and the
\* CartesiaService with its ttsQueue is constructed in initialize: each
\* call has its own.  metrics.js keeps one object for the process.
StreamIds == {"A", "B"}

\* Every call reads and writes the variables of one scope (a mutation: the
\* declarations moved to module level).
ModuleScope(k) == "A"

\* The scope in which call k finds its variables: its own invocation.
Scope(k) == k

\* An event of call k: the handler updates the record of the call's scope.
StreamEvent(k, r) ==
  /\ streams[k].events < MaxEvents
  /\ streams' = [[streams EXCEPT ![Scope(k)] = r]
                   EXCEPT ![k].events = @ + 1]

\* The variables call k sees.
Own(k) == streams[Scope(k)]

StreamQuiet ==
  UNCHANGED <<wsState, crashed, userConfig, ringback, dgOpen, isSpeaking,
              messages, transcript, collectedData, llmCalls, closeTimers, pc,
              sendCtx, llmReq, tts, nAccepted, nDiscarded, updLog, audioOut,
              llmProvider, route, stopVars, webhook, media, late,
              recog, utter>>

\* 'start': isSpeaking = true for the warm-up; the greeting is generated
\* (one reasoning call), recorded and queued for synthesis.
StreamStart(k) ==
  /\ streams[k].events = 0
  /\ StreamEvent(k, [Own(k) EXCEPT !.isSpeaking = TRUE,
                                         !.transcript = @ + 1,
                                         !.ttsQueue = @ + 1])
  /\ metrics' = TrackLLMUsage(OnCallStart(metrics), "groq", FALSE)
  /\ StreamQuiet

\* 'media': the frame goes to the call's recognizer.
StreamMedia(k) ==
  /\ streams[k].events > 0
  /\ StreamEvent(k, Own(k))
  /\ UNCHANGED metrics
  /\ StreamQuiet

\* An utterance: discarded while the call is speaking; else recorded, sent
\* to the reasoning router, and the reply recorded and queued.
StreamUtterance(k) ==
  /\ streams[k].events > 0
  /\ IF streams[Scope(k)].isSpeaking
     THEN /\ StreamEvent(k, Own(k))
          /\ UNCHANGED metrics
     ELSE /\ StreamEvent(k, [Own(k) EXCEPT !.isSpeaking = TRUE,
                                                 !.transcript = @ + 2,
                                                 !.ttsQueue = @ + 1])
          /\ metrics' = TrackLLMUsage(metrics, "groq", FALSE)
  /\ StreamQuiet

\* update_service_request executed for the call.
StreamAction(k) ==
  /\ streams[k].events > 0
  /\ \E v \in Values :
       StreamEvent(k, [Own(k) EXCEPT !.collectedData = v])
  /\ UNCHANGED metrics
  /\ StreamQuiet

\* The queued utterance was synthesized and played: finally of
\* sendAIResponse.
StreamSpoken(k) ==
  /\ streams[Scope(k)].ttsQueue > 0
  /\ StreamEvent(k, [Own(k) EXCEPT !.isSpeaking = FALSE,
                                         !.ttsQueue = @ - 1])
  /\ UNCHANGED metrics
  /\ StreamQuiet

\* 'stop': the call's connections are closed and its session finalized.
StreamStop(k) ==
  /\ streams[k].events > 0
  /\ streams[k].events < MaxEvents
  /\ streams' = [[streams EXCEPT ![Scope(k)].ttsQueue = 0]
                   EXCEPT ![k].events = MaxEvents]
  /\ metrics' = OnCallEnd(metrics)
  /\ StreamQuiet

NextTwoCalls ==
  \E k \in StreamIds :
    \/ StreamStart(k)
    \/ StreamMedia(k)
    \/ StreamUtterance(k)
    \/ StreamAction(k)
    \/ StreamSpoken(k)
    \/ StreamStop(k)

SpecTwoCalls == Init /\ [][NextTwoCalls]_vars

\* The demo call with the scheduling Node and the clients guarantee: a
\* runnable continuation runs, an armed timer fires, a connection attempt
\* and a reasoning request settle (each has its own timeout).  Nothing is
\* assumed of what the synthesis gateway sends on an open connection.
FairDemoCall ==
  /\ SpecDemoCall
  /\ \A c \in Callers :
       /\ WF_vars(SendResumes(c))
       /\ WF_vars(SendThrew(c))
       /\ WF_vars(PlaybackDone(c))
       /\ WF_vars(HardTimeoutFires(c))
       /\ WF_vars(RetryPauseElapsed(c))
       /\ WF_vars(ConnectOpen(c) \/ ConnectError(c) \/ ConnectTimeout(c))
       /\ WF_vars(ChatReturns(c) \/ ChatFails(c))

\* executeToolCall applied to any tool call the reasoning service can
\* name, one call after the other, on the data of a client call.
ToolNames == {UPDATE, ENDCALL, OTHERTOOL}

ExecuteAnyToolCall ==
  /\ Len(updLog) + closeTimers < MaxActions
  /\ \E name \in ToolNames, ok \in BOOLEAN, args \in ArgSets :
       LET st == ExecuteToolCall(ToolState, ToolCall(1, name, ok, args))
       IN /\ collectedData' = st.data
          /\ closeTimers' = st.timers
          /\ updLog' = st.log
  /\ UNCHANGED <<wsState, crashed, userConfig, ringback, dgOpen, isSpeaking,
                 messages, transcript, llmCalls, pc, sendCtx, llmReq, tts,
                 nAccepted, nDiscarded, audioOut, routerVars, stopVars, webhook, media,
                 late, sideVars>>

InitTools == Listening("client")

NextTools == ExecuteAnyToolCall

SpecTools == InitTools /\ [][NextTools]_vars

\* ------------------------------------------------------------ properties
\* C1: an utterance delivered while isSpeaking is true is discarded: the
\* step that delivers it appends nothing to messages or to the display
\* transcript, starts no invocation and issues no reasoning request.
C1_HalfDuplexDiscard ==
  [][(isSpeaking /\ nAccepted' + nDiscarded' # nAccepted + nDiscarded)
       => UNCHANGED <<messages, transcript, pc, llmReq, llmCalls>>]_vars

C1_Witness == nDiscarded > 0 /\ isSpeaking /\ nAccepted > 0

\* An onTranscript invocation past the flag check awaits the router.
TurnInActive == \E c \in Turns : pc[c] \in {"chat", "followup"}

\* A sendAIResponse invocation has a request on the connection and forwards
\* the chunks that arrive.
TurnOutActive == \E c \in Callers : pc[c] = "tts" /\ tts.req[c] = "speaking"

\* C2: in no reachable state are Turn-In processing and Turn-Out audio
\* streaming active together.
C2_TurnExclusivity == ~(TurnInActive /\ TurnOutActive)

\* A turn is between "utterance accepted" and "synthesis marked complete".
ActiveTurns == {c \in Turns : pc[c] # "idle"}

\* C3: at most one turn is active at any time; no utterance starts a
\* reasoning call while an earlier turn is in its reasoning or synthesis.
C3_TurnsSequential == Cardinality(ActiveTurns) <= 1

\* C4: when sendAIResponse exits by a throw, isSpeaking is false in the
\* state it exits into, and the recognizer can still deliver utterances.
C4_FlagClearedOnThrow ==
  [][\A c \in Callers :
       (pc[c] # "threw" /\ pc'[c] = "threw") => (~isSpeaking' /\ ~Discard' /\ dgOpen')]_vars

C4_Witness ==
  \E c \in Turns : pc[c] = "threw" /\ sendCtx[c].ctx = "reply" /\ ~isSpeaking

\* C5: in a live call, whenever isSpeaking is true it is eventually false
\* again, whatever the synthesis gateway sends or fails to send.
C5_ListensAgain == (isSpeaking /\ ~crashed) ~> (~isSpeaking \/ crashed)

\* C6: a speakText request is pending only while its 10 s timer is armed:
\* when the window has elapsed without 'done' the request has been rejected,
\* chunks or no chunks.
C6_PendingHasTimeout ==
  \A c \in Callers :
    (~crashed /\ tts.req[c] = "speaking") => tts.hardTimeout[c]

\* C7: while the second reasoning call of a turn is pending, it offers no
\* tools, and the messages it was issued with end with the assistant entry
\* naming the requested calls followed by exactly one tool entry per
\* requested call, in order.
C7_TwoCallPattern ==
  \A c \in Turns :
    pc[c] = "followup" =>
      LET calls == llmReq[c].calls
          n == Len(calls)
          at == llmReq[c].at
      IN /\ llmReq[c].kind = "followup"
         /\ ~llmReq[c].tools
         /\ n > 0
         /\ at <= Len(messages)
         /\ at - n >= 1
         /\ messages[at - n] = Msg("assistant", <<>>, Ids(calls))
         /\ \A i \in 1..n :
              /\ messages[at - n + i].role = "tool"
              /\ messages[at - n + i].ref = <<calls[i].id>>

C7_Witness ==
  \E c \in Turns : pc[c] = "followup" /\ Len(llmReq[c].calls) = 2

\* The value of field f in the last entry of log that has f, else none.
RECURSIVE LastWritten(_, _)
LastWritten(log, f) ==
  IF log = <<>> THEN NullV
  ELSE IF f \in DOMAIN log[Len(log)] THEN log[Len(log)][f]
  ELSE LastWritten(SubSeq(log, 1, Len(log) - 1), f)

\* C8: each field of collectedData holds the value given by the last
\* update_service_request whose arguments had the field, and null when no
\* update had it.
C8_LastWriterWins ==
  \A f \in Fields : collectedData[f] = LastWritten(updLog, f)

C8_Witness ==
  /\ Len(updLog) = 3
  /\ "issue" \in DOMAIN updLog[1] /\ "issue" \in DOMAIN updLog[2]
  /\ "issue" \notin DOMAIN updLog[3]
  /\ updLog[1]["issue"] = "v1" /\ updLog[2]["issue"] = "v2"
  /\ \A i \in 1..3 : "started" \notin DOMAIN updLog[i]

\* C9: a field of collectedData that holds a value never becomes null
\* again.
C9_NeverUnset ==
  [][\A f \in Fields : collectedData[f] # NullV => collectedData'[f] # NullV]_vars

\* Requests on the connection: sent, or between the attempts of their retry.
InFlight == {c \in Callers : tts.req[c] \in {"speaking", "pause", "reconnect"}}

C11_BoundedRetry ==
  /\ [](\A c \in Callers :
          /\ tts.attempt[c] <= MaxRetries
          /\ tts.req[c] \in {"pause", "reconnect"} =>
               (tts.lastError[c] = "timeout" /\ tts.attempt[c] = 0))
  /\ [][\A c \in Callers :
          /\ (tts'.req[c] = "pause" /\ tts.req[c] # "pause") =>
               (tts.req[c] = "speaking" /\ tts'.websocket = "null")
          /\ (tts'.req[c] = "reconnect" /\ tts.req[c] # "reconnect") =>
               (tts.req[c] = "pause" /\ tts'.websocket = "connecting")
          /\ (tts.req[c] = "reconnect" /\ tts'.req[c] # "reconnect") =>
               \/ tts'.req[c] = "rejected"
               \/ /\ tts'.req[c] = "speaking"
                  /\ tts'.attempt[c] = 1
                  /\ tts'.websocket = "open"
          /\ tts'.attempt[c] > tts.attempt[c] => tts.req[c] = "reconnect"]_vars

C11_Witness ==
  \E c \in Callers : tts.req[c] = "speaking" /\ tts.attempt[c] = 1

\* C12: when a request resolves on its second attempt, the chunks sent to
\* the transport for it are exactly the chunks of that attempt, each once
\* and in arrival order; and when the playback wait ends the flag is false.
C12_ExactlyOnceAcrossRetry ==
  [][\A c \in Callers :
       /\ (tts.req[c] = "speaking" /\ tts.attempt[c] > 0 /\ tts'.req[c] = "resolved")
            => audioOut'[c] = [i \in 1..tts.chunkCount[c] |-> <<tts.attempt[c], i>>]
       /\ (pc[c] = "playback" /\ pc'[c] # "playback") => ~isSpeaking']_vars

C12_Witness ==
  \E c \in Turns : tts.req[c] = "resolved" /\ audioOut[c] = <<<<1, 1>>>>

\* The error classes the specification calls transient: rate-limited,
\* overloaded, malformed request due to the tool schema, and 5xx.
TransientKinds == {"rate limited", "overloaded", "tool schema", "bad gateway"}

\* C13: in auto mode LLMRouter.chat calls the primary first; a transient
\* error of the primary is followed by exactly one call of the fallback
\* with the same messages and tools; any other error propagates without
\* the fallback being called; an error of the fallback propagates.
C13_FailoverPolicy ==
  /\ [](\A c \in Turns :
          route[c].result \in {"ok", "threw"} =>
            /\ route[c].primary # "none"
            /\ route[c].primary = "ok" =>
                 (route[c].fallback = "none" /\ route[c].result = "ok")
            /\ route[c].primary \in TransientKinds =>
                 route[c].fallback \in {"ok"} \cup ErrorKinds
            /\ route[c].primary \in ErrorKinds \ TransientKinds =>
                 (route[c].fallback = "none" /\ route[c].result = "threw")
            /\ route[c].fallback \in ErrorKinds => route[c].result = "threw")
  /\ [][\A c \in Turns :
          /\ (llmReq'[c].isFallback /\ ~llmReq[c].isFallback) =>
               /\ llmReq'[c] = [llmReq[c] EXCEPT !.provider = "gemini",
                                                 !.isFallback = TRUE]
               /\ llmReq[c].provider = "groq"
               /\ messages' = messages
          /\ (llmReq[c].isFallback /\ llmReq'[c] # llmReq[c]) =>
               llmReq'[c].provider # "gemini"]_vars

C15_UnconfiguredAborts ==
  userConfig = "unconfigured" =>
    /\ pc[0] = "failed"
    /\ wsState \in {"closing", "closed"}
    /\ messages = <<>>
    /\ transcript = <<>>

\* C16: from the start of initialize until the greeting has finished
\* playing, isSpeaking is true whenever a callback can run, and no
\* utterance is accepted: utterances are accepted only afterwards.
C16_WarmUpGating ==
  pc[0] \notin {"idle", "done"} =>
    /\ Running => isSpeaking
    /\ nAccepted = 0

\* C17: when a step of initialize throws, the transport is closed and no
\* caller utterance is processed as a turn from then on.
C17_WarmUpFailureTerminal ==
  pc[0] = "failed" =>
    /\ wsState \in {"closing", "closed"}
    /\ \A c \in Turns : pc[c] = "idle"
    /\ nAccepted = 0

\* A step in which something throws inside an accepted turn of c: the
\* reasoning call, the execution of a tool call (the assistant entry with
\* the tool calls was pushed, the follow-up was not started), the follow-up
\* call, or the synthesis of the reply.
TurnThrows(c) ==
  \/ /\ pc[c] = "chat" /\ pc'[c] # "chat"
     /\ llmCalls' = llmCalls
     /\ llmReq'[c] = NoReq /\ metrics' = metrics
  \/ /\ pc[c] = "chat" /\ pc'[c] \notin {"chat", "followup"}
     /\ \E i \in DOMAIN messages' :
          i > Len(messages) /\ messages'[i].role = "assistant" /\ messages'[i].ref # <<>>
  \/ /\ pc[c] = "followup" /\ pc'[c] # "followup"
     /\ llmCalls' = llmCalls
  \/ /\ pc[c] = "threw" /\ sendCtx[c].ctx = "reply"
     /\ pc'[c] # "threw"

\* C18: whatever throws in onTranscript after the utterance was accepted,
\* the fallback phrase is appended as an assistant message and submitted
\* to synthesis; a failure of that synthesis does not leave onTranscript;
\* the process goes on and isSpeaking is false when the turn is over.
C18_TurnErrorFallback ==
  [][\A c \in Turns :
       /\ TurnThrows(c) =>
            /\ Len(messages') > Len(messages)
            /\ messages'[Len(messages')] = Msg("assistant", Fallback, <<>>)
            /\ sendCtx'[c] = [ctx |-> "fallback", text |-> Fallback]
            /\ pc'[c] \in {"tts", "refresh"}
            /\ isSpeaking'
            /\ crashed' = crashed /\ wsState' = wsState
       /\ (sendCtx[c].ctx = "fallback" /\ pc'[c] # pc[c]) =>
            /\ pc'[c] \in {"tts", "playback", "threw", "idle"}
            /\ crashed' = crashed /\ wsState' = wsState
            /\ pc'[c] \in {"threw", "idle"} => ~isSpeaking']_vars

C18_Witness ==
  \E c \in Turns :
    /\ pc[c] = "playback" /\ sendCtx[c].ctx = "fallback"
    /\ audioOut[c] # <<>>
    /\ messages[Len(messages)] = Msg("assistant", Fallback, <<>>)
    /\ \E i \in DOMAIN messages : messages[i].ref # <<>>

\* C19: a call that started and whose transport is closed, whether after a
\* 'stop' message or by the close that end_call_with_summary scheduled,
\* has its connections torn down and was handed to finalize exactly once.
C19_TerminationFinalizes ==
  /\ finalizeCalls <= 1
  /\ wsState = "closed" => (finalizeCalls = 1 /\ ~dgOpen)

\* C20: the handling of a 'stop' message calls finalize whatever fails
\* while the recognition and the synthesis connection are closed, and the
\* finalizer runs to its end.
C20_BestEffortTeardown ==
  [][/\ (stopPc = "none" /\ stopPc' # "none") =>
          /\ stopPc' = "webhook"
          /\ finalizeCalls' = finalizeCalls + 1
          /\ crashed' = crashed
     /\ (stopPc = "webhook" /\ stopPc' # "webhook") => stopPc' = "done"
     /\ finalizeCalls' # finalizeCalls => stopPc = "none"]_vars

C20_Witness ==
  /\ stopPc = "done"
  /\ finalizeCalls = 1
  /\ teardown = [deepgram |-> "failed", cartesia |-> "failed"]

\* C21: whatever the HTTP attempts of sendToWebhook do, sendToWebhook
\* returns (a result or an error value) instead of throwing, finalize ends
\* normally and onCallEnd has run.
C21_DeliveryFailureContained ==
  /\ [](/\ webhook.attempt < MAX_RETRIES
        /\ webhook.result \in {"ok", "error"} => (webhook.ended /\ stopPc = "done"))
  /\ [][/\ (webhook.pc \in {"fetch", "alert"} /\ webhook'.pc # webhook.pc) =>
             /\ webhook'.result # "threw"
             /\ webhook'.pc \in {"backoff", "alert", "done"}
             /\ webhook'.pc = "done" =>
                  (webhook'.result \in {"ok", "error"} /\ webhook'.ended)
             /\ crashed' = crashed /\ wsState' = wsState
        /\ (webhook.pc = "backoff" /\ webhook'.pc # "backoff") =>
             webhook'.pc = "fetch"]_vars

C21_Witness ==
  /\ webhook.version = "retry"
  /\ webhook.attempt = MAX_RETRIES - 1
  /\ webhook.result = "error"
  /\ webhook.ended
  /\ stopPc = "done"

\* C22: audio ingestion is never gated by turn-taking.  Once the recognition
\* connection exists, every media frame that carries a payload is forwarded
\* to the recognizer, whether the session is warming up, speaking or
\* listening; the frame is handled in the step in which it arrives, in any
\* position of the turns in progress, and that step changes nothing of them.
C22_IngestionNeverGated ==
  [][media'.forwarded + media'.dropped # media.forwarded + media.dropped =>
       /\ (media.conn /\ media'.payload) => media'.forwarded = media.forwarded + 1
       /\ media'.during = Phase
       /\ isSpeaking' = isSpeaking /\ pc' = pc /\ llmReq' = llmReq /\ tts' = tts]_vars

C22_Witness ==
  /\ media.forwarded = MaxFrames
  /\ media.payload
  /\ media.during = "speaking"
  /\ \E c \in Turns : pc[c] # "idle"

\* C23: a tool call whose name is neither update_service_request nor
\* end_call_with_summary gets the failure result, which is appended to the
\* messages as the tool entry of that call like any other result; executing
\* it changes no collected field and arms no close timer.
C23_UnknownToolFails ==
  /\ [](\A c \in Turns :
          pc[c] = "followup" =>
            LET calls == llmReq[c].calls
                first == llmReq[c].at - Len(calls)
            IN \A i \in DOMAIN calls :
                 messages[first + i] =
                   Msg("tool",
                       <<IF calls[i].name \in {UPDATE, ENDCALL}
                         THEN "success" ELSE "failure">>,
                       <<calls[i].id>>))
  /\ [][\A c \in Turns :
          (/\ pc[c] = "chat" /\ pc'[c] = "followup"
           /\ \A i \in DOMAIN llmReq'[c].calls :
                llmReq'[c].calls[i].name \notin {UPDATE, ENDCALL}) =>
            /\ collectedData' = collectedData
            /\ updLog' = updLog
            /\ closeTimers' = closeTimers
            /\ wsState' = wsState]_vars

C23_Witness ==
  \E c \in Turns :
    /\ pc[c] = "followup"
    /\ llmReq[c].calls # <<>>
    /\ llmReq[c].calls[1].name = OTHERTOOL
    /\ messages[llmReq[c].at] = Msg("tool", <<"failure">>, <<1>>)

\* Termination has been requested: 'stop' was received or the transport
\* has closed.
TerminationRequested == stopPc # "none" \/ wsState = "closed"

\* C24: once termination has been requested, no synthesized audio chunk is
\* forwarded to the open transport any more: a chunk that still arrives
\* from an in-flight synthesis is not handed to the transport.
C24_NoAudioAfterTermination ==
  [][(TerminationRequested /\ wsState = "open") => audioOut' = audioOut]_vars

C26_FlushContract ==
  /\ [](/\ Join(recog.delivered) \o Join(recog.transcriptSegments) = Join(recog.finals)
        /\ \A i \in DOMAIN recog.delivered : recog.delivered[i] # <<>>)
  /\ [][/\ Len(recog'.delivered) <= Len(recog.delivered) + 1
        /\ recog'.delivered # recog.delivered =>
             /\ recog'.transcriptSegments = <<>>
             /\ Len(recog'.finals) - Len(recog.finals) + Len(recog.transcriptSegments) > 0
        /\ (recog'.finals = recog.finals /\ recog.transcriptSegments = <<>>) =>
             recog' = recog]_vars

C26_Witness ==
  /\ Len(recog.delivered) = 2
  /\ recog.delivered[1] = <<"my", "sink", "leaks">>
  /\ recog.transcriptSegments = <<<<"my">>>>
  /\ Len(recog.finals) = MaxSegments

\* C27: the correction pass is idempotent: correcting a corrected text
\* changes nothing, because after one pass no word of the text is a key of
\* the table in any case.
C27_CorrectionIdempotent ==
  /\ [](utter.passes >= 1 =>
          /\ utter.text = CorrectPlumbingTerms(utter.original)
          /\ \A i \in DOMAIN utter.text :
               LowerCase(utter.text[i]) \notin DOMAIN Corrections)
  /\ [][utter.passes >= 1 => utter'.text = utter.text]_vars

C27_Witness ==
  /\ utter.passes = 2
  /\ utter.original = <<"Quogged", "corked">>
  /\ utter.text = <<"clogged", "clogged">>

\* C28: in the warm-up the ringback is started first and not awaited: the
\* configuration, the prompt and the recognition connection are set up
\* whether it is still playing or not, and it ends whether they are ready
\* or not.  The synthesis service is constructed and connected only once
\* the ringback is over, the greeting is requested only when that
\* connection has opened, and it is submitted to synthesis only then.
C28_WarmUpOrdering ==
  /\ [](/\ tts.exists => ringback = "done"
        /\ pc[0] \in {"config", "prompt", "ringback"} =>
             (ringback # "none" /\ ~tts.exists)
        /\ (pc[0] = "prompt" /\ Running) => ENABLED PromptReturns
        /\ (ringback = "playing" /\ Running) => ENABLED RingbackEnds
        /\ sendCtx[0].ctx = "greeting" => (tts.exists /\ dgOpen))
  /\ [][/\ (~dgOpen /\ dgOpen') => ringback' = ringback
        /\ (ringback = "playing" /\ ringback' = "done") => (dgOpen' = dgOpen /\ pc' = pc)
        /\ (pc[0] # "greet" /\ pc'[0] = "greet") =>
             (pc[0] = "connect" /\ tts'.websocket = "open")
        /\ (sendCtx[0].ctx # "greeting" /\ sendCtx'[0].ctx = "greeting") =>
             pc[0] = "greet"]_vars

C28_Witness ==
  /\ ringback = "playing"
  /\ dgOpen
  /\ pc[0] = "ringback"
  /\ ~tts.exists

\* The lines that follow the latest user line of the display transcript:
\* sendAIResponse pushes one right before it hands a text to
\* queueSpeakText.
SpokenSinceUtterance ==
  LET users == {i \in DOMAIN transcript : transcript[i].speaker = "user"}
  IN IF users = {} THEN <<>>
     ELSE SubSeq(transcript,
                 1 + CHOOSE i \in users : \A j \in users : j <= i,
                 Len(transcript))

\* C29: an accepted utterance causes at most two reasoning-router calls
\* and at most one utterance submitted to synthesis, on every path through
\* onTranscript.
C29_PerTurnBounds ==
  nAccepted = 1 =>
    /\ llmCalls <= 2
    /\ Len(SpokenSinceUtterance) <= 1

\* C30: on the direct path and on the follow-up path a reply that is empty
\* after sanitization is not appended to the messages nor to the display
\* transcript, is not submitted to synthesis and does not set isSpeaking.
C30_EmptyReplySilent ==
  /\ \A i \in DOMAIN messages :
       (messages[i].role = "assistant" /\ messages[i].ref = <<>>) =>
         messages[i].content # <<>>
  /\ \A i \in DOMAIN transcript : transcript[i].text # <<>>
  /\ \A c \in Turns : sendCtx[c].ctx = "reply" => sendCtx[c].text # <<>>

\* C31: the close that end_call_with_summary scheduled takes effect only
\* when the turn that executed it has finished its spoken reply: the timer
\* never closes the transport while a turn is waiting for its follow-up
\* reasoning call or is inside sendAIResponse.
C31_EndCallGrace ==
  [][closeTimers' < closeTimers => \A c \in Turns : pc[c] = "idle"]_vars

\* C32: an error of the follow-up reasoning call reaches the turn-level
\* handler (the fallback phrase) only after the secondary provider was
\* called with the same request and failed too.
C32_FollowUpFailover ==
  [][\A c \in Turns :
       (pc[c] = "followup" /\ sendCtx'[c].ctx = "fallback") =>
         llmReq[c].isFallback]_vars

\* C33: whichever provider serves the reasoning call of a turn, a
\* structured action in its response is executed and followed by the
\* follow-up reasoning call (or, when executing it throws, by the turn's
\* error handling): it is never dropped.
C33_ActionReachesSession ==
  [][\A c \in Turns :
       (pc[c] = "chat" /\ ~route[c].requested /\ route'[c].requested) =>
         (pc'[c] = "followup" \/ sendCtx'[c].ctx = "fallback")]_vars

\* C34: when finalize runs, llmCalls is the number of calls of the
\* reasoning router that returned during the call (greeting, turn calls,
\* follow-up calls): the calls whose usage the router tracked.
C34_MetricsComplete ==
  [][finalizeCalls' > finalizeCalls =>
       llmCalls = metrics.groq + metrics.gemini]_vars

SettledReq(c) == tts.req[c] \in {"resolved", "rejected"}

\* C35: the synthesis queue never stalls.  isProcessingQueue is false
\* whenever the queue is empty and no request is in flight; a request
\* waits only behind a request in flight; the step that settles a request,
\* resolved or rejected, takes the request at the head of the queue (and
\* those behind it, when it is rejected at once) out of the queue; and
\* as long as the requests in flight keep settling, every queued request
\* is resolved or rejected in the end.
C35_QueueNeverStalls ==
  /\ [](/\ (tts.ttsQueue = <<>> /\ InFlight = {})
             => ~tts.isProcessingQueue
        /\ \A c \in Callers :
             tts.req[c] = "queued" <=> \E i \in DOMAIN tts.ttsQueue : tts.ttsQueue[i] = c
        /\ tts.ttsQueue # <<>>
             => tts.isProcessingQueue /\ InFlight # {})
  /\ [][\A c \in Callers :
         (c \in InFlight /\ SettledReq(c)' /\ tts.ttsQueue # <<>>) =>
           /\ \E n \in 1..Len(tts.ttsQueue) :
                tts'.ttsQueue = SubSeq(tts.ttsQueue, n + 1, Len(tts.ttsQueue))
           /\ tts'.req[Head(tts.ttsQueue)] # "queued"]_vars
  /\ (\A c \in Callers : []<>(c \notin InFlight)) =>
       \A c \in Callers : (tts.req[c] = "queued") ~> SettledReq(c)

\* A request was rejected and the request that waited behind it is sent.
C35_Witness ==
  \E c, d \in Callers :
    /\ tts.req[c] = "rejected"
    /\ tts.req[d] = "speaking"
    /\ tts.ttsQueue = <<>>
    /\ tts.isProcessingQueue

\* C36: a speakText request that is pending when disconnect() drops the
\* connection still settles: no timer callback of the request fails on the
\* cleared websocket reference, and a request whose connection was dropped
\* has its timer armed to reject it.
C36_DisconnectSettles ==
  /\ ~crashed
  /\ \A c \in Callers :
       (tts.req[c] = "speaking" /\ ~tts.onCur[c]) => tts.hardTimeout[c]

\* C37: the active-call counter is balanced: it is never negative, and it
\* is back at 0 when the call is over (the transport is closed and no
\* finalize is in progress), onCallEnd having run once for the call that
\* ran onCallStart.
C37_ActiveCallsBalanced ==
  /\ metrics.activeCalls >= 0
  /\ (wsState = "closed" /\ stopPc \in {"none", "done"}) => metrics.activeCalls = 0

\* The assistant utterances of the model-facing transcript (the assistant
\* messages that carry text, not tool calls) and of the display transcript.
AssistantTexts ==
  LET entries == SelectSeq(messages, LAMBDA m : m.role = "assistant" /\ m.ref = <<>>)
  IN [i \in DOMAIN entries |-> entries[i].content]

AiLines ==
  LET lines == SelectSeq(transcript, LAMBDA l : l.speaker = "ai")
  IN [i \in DOMAIN lines |-> lines[i].text]

\* C38: when no invocation is in progress the display transcript and the
\* model-facing transcript hold the same assistant utterances in the same
\* order, each recorded once in either log.
C38_TranscriptAgreement ==
  (\A c \in Callers : pc[c] \in {"idle", "done"}) => AiLines = AssistantTexts

====
